---------------------------- MODULE Spec2Model ----------------------------
(***************************************************************************)
(* A model of the ServerSeekerV2 scanner: the supervisor loop of main.rs,  *)
(* the rescan and discovery pipelines of scanner.rs with the process-wide  *)
(* semaphore, the task wrapper, and the ping engine of protocol.rs.        *)
(*                                                                         *)
(* Three specifications share the definitions below:                      *)
(*   Spec      the supervisor, the scanner task, the producer, the channel *)
(*             and the workers;                                            *)
(*   SpecTask  one invocation of task_wrapper against every peer of a      *)
(*             bounded family, recording what the invocation did;          *)
(*   SpecPure  one application of a pure function of protocol.rs,          *)
(*             response.rs or utils.rs to every input of a bounded family. *)
(***************************************************************************)
EXTENDS Integers, Sequences, FiniteSets, TLC

(***************************************************************************)
(* Bounds of the model.                                                    *)
(***************************************************************************)
\* Capacity of PERMITS in the model; scanner.rs:22 sets it to 1000.
PermitCap == 2
\* Capacity of the rescan channel in the model; scanner.rs:122 sets it to 10.
ChannelCap == 2
\* Rows the storage stream yields in one rescan iteration, at most.
MaxRows == 2
\* port_range_end of the configuration (port_range_start is FirstPort).
LastPort == 2
\* Lines the scan engine writes to stdout in one discovery iteration, at most.
MaxLines == 3
\* Consecutive scanner-task panics followed by the model.
MaxRestarts == 7
\* Bytes a peer sends on the modern connection, at most.
MaxStream == 5

(***************************************************************************)
(* Program constants.                                                      *)
(***************************************************************************)
\* scanner.rs:23, TIMEOUT_SECS
TIMEOUT_SECS == 5
\* main.rs:137, the first backoff, in seconds
BackoffStart == 1
\* main.rs:165, the ceiling of the backoff, in seconds
BackoffCeiling == 60
\* scanner.rs:184, the sleep after the consumer has drained, in seconds
QuiesceSleep == 10
\* protocol.rs:335, read_varint_from_stream gives up when count reaches 35
VarintMaxShift == 35
\* protocol.rs:113, the size of the buffer of the one legacy read
LegacyBufSize == 1024

FirstPort == 1

(***************************************************************************)
(* Helpers on sequences.                                                   *)
(***************************************************************************)
SeqsUpTo(S, n) == UNION {[1..m -> S] : m \in 0..n}

Min(a, b) == IF a < b THEN a ELSE b

Pow2(n) == 2^n

\* s[from..] (1-based), the empty sequence past the end
Drop(s, from) == IF from > Len(s) THEN <<>> ELSE SubSeq(s, from, Len(s))

\* does sub occur in s as a contiguous subsequence (str::contains)
Contains(s, sub) ==
    \E i \in 1..(Len(s) - Len(sub) + 1) : SubSeq(s, i, i + Len(sub) - 1) = sub

StartsWith(s, pre) == Len(s) >= Len(pre) /\ SubSeq(s, 1, Len(pre)) = pre

(***************************************************************************)
(* protocol.rs: read_varint_from_stream.  A stream is the bytes the peer   *)
(* sends and what follows them: "eof" (the peer closes, read_exact fails   *)
(* with UnexpectedEof) or "stall" (the peer sends nothing more, the read   *)
(* stays pending).  pos is the index of the next unread byte.              *)
(* usize is 64 bits: five groups of 7 bits never overflow it, so the       *)
(* bitwise or of disjoint groups is a sum.  A usize is kept in two parts,  *)
(* value = hi * 2^28 + lo with lo < 2^28: lo holds the first four groups   *)
(* and hi the groups from the fifth on.                                    *)
(***************************************************************************)
\* the largest value of i32 (protocol.rs:291, utils.rs:112)
I32Max == 2147483647

\* the bits below which a group lands in lo
WideSplit == 28

Wide(hi, lo) == [hi |-> hi, lo |-> lo]

\* value | (group << count), for a group that lies above the bits set so far
WideOr(w, group, count) ==
    IF count < WideSplit
    THEN Wide(w.hi, w.lo + group * Pow2(count))
    ELSE Wide(w.hi + group * Pow2(count - WideSplit), w.lo)

\* a limit that lets a sixth byte through
TooBigPastLimit(count) == count > VarintMaxShift

\* protocol.rs:334-337: count has reached the limit
TooBig(count) == count >= VarintMaxShift

RECURSIVE ReadVarintLoop(_, _, _, _)
ReadVarintLoop(bytes, pos, value, count) ==
    IF pos > Len(bytes)
    THEN [kind |-> "end", wide |-> Wide(0, 0), pos |-> pos]
    ELSE LET b == bytes[pos]
             v == WideOr(value, b % 128, count)
         IN  IF b < 128
             THEN [kind |-> "ok", wide |-> v, pos |-> pos + 1]
             ELSE IF TooBig(count + 7)
                  THEN [kind |-> "toobig", wide |-> Wide(0, 0), pos |-> pos + 1]
                  ELSE ReadVarintLoop(bytes, pos + 1, v, count + 7)

read_varint_from_stream(bytes, pos) ==
    ReadVarintLoop(bytes, pos, Wide(0, 0), 0)

\* a usize below 2^31 as an integer of the model (the streams of
\* ModernStreams and ModernFailing declare no larger one)
Narrow(w) == w.hi * Pow2(WideSplit) + w.lo

\* protocol.rs:291-304: write_varint.  value as u32 is value for value >= 0
\* and value + 2^32 otherwise; its low 7 bits are value % 128 either way, and
\* u_val >> 7 is value \div 128, plus 2^25 for a negative value.
RECURSIVE WriteVarintLoop(_)
WriteVarintLoop(u_val) ==
    LET temp == u_val % 128
        rest == u_val \div 128
    IN  IF rest # 0 THEN <<temp + 128>> \o WriteVarintLoop(rest)
        ELSE <<temp>>

write_varint(value) ==
    LET temp == value % 128
        rest == (value \div 128) + (IF value < 0 THEN Pow2(25) ELSE 0)
    IN  IF rest # 0 THEN <<temp + 128>> \o WriteVarintLoop(rest)
        ELSE <<temp>>

\* protocol.rs:345-361: decode_varint, [wide, n].  The loop has no limit on
\* count; the byte strings of the model stay below the 10 bytes at which
\* the shift would pass the width of usize.
RECURSIVE DecodeVarintLoop(_, _, _, _)
DecodeVarintLoop(bytes, i, value, count) ==
    IF i > Len(bytes)
    THEN [wide |-> value, n |-> (count \div 7) + 1]
    ELSE LET b == bytes[i]
             v == WideOr(value, b % 128, count)
         IN  IF b \div 128 # 1
             THEN [wide |-> v, n |-> (count \div 7) + 1]
             ELSE DecodeVarintLoop(bytes, i + 1, v, count + 7)

decode_varint(bytes) == DecodeVarintLoop(bytes, 1, Wide(0, 0), 0)

\* What a failed read turns into: an io::Error, or a read that never returns.
ReadFailure(kind, tail) ==
    IF kind = "toobig" THEN "IOError"
    ELSE IF tail = "eof" THEN "IOError" ELSE "Pending"

\* String::from_utf8_lossy on the bytes of the model's alphabet: a byte
\* below 128 is itself, a lone byte of 128 or more is U+FFFD.
from_utf8_lossy(bytes) ==
    [i \in 1..Len(bytes) |-> IF bytes[i] < 128 THEN bytes[i] ELSE 65533]

(***************************************************************************)
(* What a ping returns on success is a String.  The model keeps two kinds: *)
(* the text a modern peer sent (its code points), and the document         *)
(* legacy_ping builds with json! and prints with to_string.                *)
(***************************************************************************)
NoDoc ==
    [name |-> <<>>, protocol |-> 0, max |-> 0, online |-> 0, motd |-> <<>>]

TextString(chars) == [kind |-> "text", chars |-> chars, doc |-> NoDoc]

JsonString(doc) == [kind |-> "json", chars |-> <<>>, doc |-> doc]

NoString == [kind |-> "none", chars |-> <<>>, doc |-> NoDoc]

(***************************************************************************)
(* protocol.rs: PingableServer::proper_ping.  conn is what the peer does   *)
(* with the connection: "ok", "refused" (connect fails), "reset" (the      *)
(* writes fail) or "stall" (connect stays pending: the inner 5-second      *)
(* timeout fires).  The result records the bytes consumed from the stream  *)
(* and the size of the buffer allocated for the JSON string.               *)
(***************************************************************************)
PingResult(result, str, consumed, allocated, body) ==
    [result |-> result, str |-> str, consumed |-> consumed,
     allocated |-> allocated, body |-> body, panic |-> FALSE]

\* a reader that takes any packet id
PacketIdAccepted(packet_id) == FALSE

\* protocol.rs:247: the response is rejected unless its packet id is 0x00.
PacketIdRejected(packet_id) == packet_id # 0

\* protocol.rs:265: the ceiling the sanity check compares json_len with
JsonLenCeiling == 32767 * 4

\* protocol.rs:265-268: the sanity check on json_len (0, or above the
\* ceiling) has an empty body, so it rejects nothing.
JsonLenRejected(json_len) ==
    IF json_len = 0 \/ json_len > JsonLenCeiling THEN FALSE ELSE FALSE

ProperPingRead(stream) ==
    LET bytes == stream.bytes
        plen  == read_varint_from_stream(bytes, 1)
        pid   == read_varint_from_stream(bytes, plen.pos)
        jlen  == read_varint_from_stream(bytes, pid.pos)
        avail == Len(bytes) - (jlen.pos - 1)
        json_len == Narrow(jlen.wide)
    IN  IF plen.kind # "ok"
        THEN PingResult(ReadFailure(plen.kind, stream.tail), NoString,
                        plen.pos - 1, 0, 0)
        ELSE IF pid.kind # "ok"
        THEN PingResult(ReadFailure(pid.kind, stream.tail), NoString,
                        pid.pos - 1, 0, 0)
        ELSE IF PacketIdRejected(Narrow(pid.wide))
        THEN PingResult("MalformedResponse", NoString, pid.pos - 1, 0, 0)
        ELSE IF jlen.kind # "ok"
        THEN PingResult(ReadFailure(jlen.kind, stream.tail), NoString,
                        jlen.pos - 1, 0, 0)
        ELSE IF JsonLenRejected(json_len)
        THEN PingResult("MalformedResponse", NoString, jlen.pos - 1, 0, 0)
        ELSE IF avail < json_len
        THEN PingResult(ReadFailure("end", stream.tail), NoString,
                        Len(bytes), json_len, avail)
        ELSE PingResult("Ok",
                 TextString(from_utf8_lossy(
                     SubSeq(bytes, jlen.pos, jlen.pos + json_len - 1))),
                 jlen.pos - 1 + json_len, json_len, json_len)

proper_ping(peer) ==
    IF peer.conn = "stall" THEN PingResult("TimedOut", NoString, 0, 0, 0)
    ELSE IF peer.conn \in {"refused", "reset"}
    THEN PingResult("IOError", NoString, 0, 0, 0)
    ELSE ProperPingRead(peer)

(***************************************************************************)
(* Text helpers of legacy_ping: str::split, str::parse::<i32>.             *)
(* A string is the sequence of its code points.                            *)
(***************************************************************************)
\* index of the first occurrence of sep in s, 0 when there is none
RECURSIVE IndexOf(_, _, _)
IndexOf(s, sep, i) ==
    IF i > Len(s) THEN 0
    ELSE IF s[i] = sep THEN i ELSE IndexOf(s, sep, i + 1)

\* str::split(sep).collect(): always at least one part
RECURSIVE Split(_, _)
Split(s, sep) ==
    LET i == IndexOf(s, sep, 1)
    IN  IF i = 0 THEN <<s>>
        ELSE <<SubSeq(s, 1, i - 1)>> \o Split(Drop(s, i + 1), sep)

IsDigit(c) == c >= 48 /\ c <= 57

\* the digits of s accumulated as Rust does, checked against the i32 range;
\* sign is 1 or -1.  Yields [ok, value].
RECURSIVE ParseDigits(_, _, _, _)
ParseDigits(s, i, acc, sign) ==
    IF i > Len(s) THEN [ok |-> TRUE, value |-> acc]
    ELSE IF ~IsDigit(s[i]) THEN [ok |-> FALSE, value |-> 0]
    ELSE LET d == s[i] - 48
         IN  IF sign = 1
             THEN IF acc > 214748364 \/ (acc = 214748364 /\ d > 7)
                  THEN [ok |-> FALSE, value |-> 0]
                  ELSE ParseDigits(s, i + 1, acc * 10 + d, sign)
             ELSE IF acc < -214748364 \/ (acc = -214748364 /\ d > 8)
                  THEN [ok |-> FALSE, value |-> 0]
                  ELSE ParseDigits(s, i + 1, acc * 10 - d, sign)

\* s.parse::<i32>().unwrap_or(0)
ParseI32OrZero(s) ==
    LET r == IF Len(s) = 0 THEN [ok |-> FALSE, value |-> 0]
             ELSE IF s[1] = 45
                  THEN IF Len(s) = 1 THEN [ok |-> FALSE, value |-> 0]
                       ELSE ParseDigits(s, 2, 0, -1)
             ELSE IF s[1] = 43
                  THEN IF Len(s) = 1 THEN [ok |-> FALSE, value |-> 0]
                       ELSE ParseDigits(s, 2, 0, 1)
             ELSE ParseDigits(s, 1, 0, 1)
    IN  IF r.ok THEN r.value ELSE 0

(***************************************************************************)
(* UTF-16: the code units of a big-endian byte string, and                 *)
(* String::from_utf16, which fails on an unpaired surrogate.               *)
(***************************************************************************)
CodeUnits(bytes) ==
    [i \in 1..(Len(bytes) \div 2) |-> bytes[2 * i - 1] * 256 + bytes[2 * i]]

IsHighSurrogate(u) == u >= 55296 /\ u <= 56319
IsLowSurrogate(u) == u >= 56320 /\ u <= 57343

\* [ok, chars]
RECURSIVE FromUtf16(_, _)
FromUtf16(units, i) ==
    IF i > Len(units) THEN [ok |-> TRUE, chars |-> <<>>]
    ELSE IF IsLowSurrogate(units[i]) THEN [ok |-> FALSE, chars |-> <<>>]
    ELSE IF IsHighSurrogate(units[i])
         THEN IF i + 1 > Len(units) \/ ~IsLowSurrogate(units[i + 1])
              THEN [ok |-> FALSE, chars |-> <<>>]
              ELSE LET rest == FromUtf16(units, i + 2)
                       cp == 65536 + (units[i] - 55296) * 1024
                                   + (units[i + 1] - 56320)
                   IN  [ok |-> rest.ok,
                        chars |-> IF rest.ok THEN <<cp>> \o rest.chars ELSE <<>>]
         ELSE LET rest == FromUtf16(units, i + 1)
              IN  [ok |-> rest.ok,
                   chars |-> IF rest.ok THEN <<units[i]>> \o rest.chars
                             ELSE <<>>]

(***************************************************************************)
(* protocol.rs: PingableServer::legacy_ping.  The peer is conn (as for     *)
(* proper_ping), read ("data": the one read returns buf, "stall": it stays *)
(* pending, "error": it fails) and buf, at most 1024 bytes.                *)
(* overflow_checks is the build: with it `len * 2` on u16 panics when it   *)
(* overflows, without it the product wraps modulo 2^16.                    *)
(***************************************************************************)
SectionSign == 167

LegacyPrefix == <<SectionSign, 49, 0>>

\* "Legacy < 1.6"
LegacyName == <<76, 101, 103, 97, 99, 121, 32, 60, 32, 49, 46, 54>>

LegacyResult(result, str, consumed, panic) ==
    [result |-> result, str |-> str, consumed |-> consumed,
     allocated |-> 0, body |-> 0, panic |-> panic]

\* a 1.6 document with the two player counts taken from each other's field
Legacy16DocSwapped(parts) ==
    [name     |-> parts[3],
     protocol |-> ParseI32OrZero(parts[2]),
     max      |-> ParseI32OrZero(parts[5]),
     online   |-> ParseI32OrZero(parts[6]),
     motd     |-> parts[4]]

\* protocol.rs:155-176: the document of the 1.6 format
Legacy16Doc(parts) ==
    [name     |-> parts[3],
     protocol |-> ParseI32OrZero(parts[2]),
     max      |-> ParseI32OrZero(parts[6]),
     online   |-> ParseI32OrZero(parts[5]),
     motd     |-> parts[4]]

\* protocol.rs:183-201: the document of the format before 1.6
LegacyOldDoc(parts) ==
    [name     |-> LegacyName,
     protocol |-> 0,
     max      |-> ParseI32OrZero(parts[3]),
     online   |-> ParseI32OrZero(parts[2]),
     motd     |-> parts[1]]

LegacyDecode(buffer, overflow_checks) ==
    LET len      == buffer[2] * 256 + buffer[3]
        byte_len == (len * 2) % 65536
        payload  == FromUtf16(CodeUnits(SubSeq(buffer, 4, 3 + byte_len)), 1)
        str      == payload.chars
        parts0   == Split(str, 0)
        partsS   == Split(str, SectionSign)
        n        == Len(buffer)
    IN  IF overflow_checks /\ len * 2 >= 65536
        THEN LegacyResult("Panic", NoString, n, TRUE)
        ELSE IF n < 3 + byte_len
        THEN LegacyResult("MalformedResponse", NoString, n, FALSE)
        ELSE IF ~payload.ok
        THEN LegacyResult("MalformedResponse", NoString, n, FALSE)
        ELSE IF StartsWith(str, LegacyPrefix)
        THEN IF Len(parts0) >= 6
             THEN LegacyResult("Ok", JsonString(Legacy16Doc(parts0)), n, FALSE)
             ELSE LegacyResult("MalformedResponse", NoString, n, FALSE)
        ELSE IF Len(partsS) >= 3
             THEN LegacyResult("Ok", JsonString(LegacyOldDoc(partsS)), n, FALSE)
             ELSE LegacyResult("MalformedResponse", NoString, n, FALSE)

\* protocol.rs:111-128: the one read of at most LegacyBufSize bytes, and the
\* checks on what it gave
LegacyBuffer(buffer, overflow_checks) ==
    IF Len(buffer) = 0
    THEN LegacyResult("MalformedResponse", NoString, 0, FALSE)
    ELSE IF buffer[1] # 255
    THEN LegacyResult("MalformedResponse", NoString, Len(buffer), FALSE)
    ELSE IF Len(buffer) < 3
    THEN LegacyResult("MalformedResponse", NoString, Len(buffer), FALSE)
    ELSE LegacyDecode(buffer, overflow_checks)

legacy_ping(peer, overflow_checks) ==
    IF peer.conn = "stall" THEN LegacyResult("TimedOut", NoString, 0, FALSE)
    ELSE IF peer.conn \in {"refused", "reset"}
    THEN LegacyResult("IOError", NoString, 0, FALSE)
    ELSE IF peer.read = "stall"
    THEN LegacyResult("Pending", NoString, 0, FALSE)
    ELSE IF peer.read = "error"
    THEN LegacyResult("IOError", NoString, 0, FALSE)
    ELSE LegacyBuffer(SubSeq(peer.buf, 1, Min(Len(peer.buf), LegacyBufSize)),
                      overflow_checks)

(***************************************************************************)
(* response.rs: the Server record and Server::check_opt_out.               *)
(* serde_json::from_str::<Server> is library code.  A document legacy_ping *)
(* built always holds version and players, so it parses; its description   *)
(* is {"text": motd} and it has no description_formatted key.  The texts a *)
(* modern peer sends are one or two bytes long in the model, and stand for *)
(* whole documents: StatusTexts lists the ones that parse and what they    *)
(* parse to; every other text is a parse error.                            *)
(***************************************************************************)
\* "§b§d§f§d§b"
OptOutMarker == <<167, 98, 167, 100, 167, 102, 167, 100, 167, 98>>

NoServer ==
    [version |-> [name |-> <<>>, protocol |-> 0],
     players |-> [max |-> 0, online |-> 0],
     description_formatted |-> [some |-> FALSE, chars |-> <<>>]]

MkServer(name, protocol, max, online, formatted) ==
    [version |-> [name |-> name, protocol |-> protocol],
     players |-> [max |-> max, online |-> online],
     description_formatted |-> formatted]

None == [some |-> FALSE, chars |-> <<>>]

Some(chars) == [some |-> TRUE, chars |-> chars]

\* "1.8"
Name18 == <<49, 46, 56>>

StatusTexts ==
    {[text |-> <<1>>, server |-> MkServer(Name18, 47, 20, 3, None)],
     [text |-> <<2>>,
      server |-> MkServer(Name18, 47, 20, 3,
                          Some(<<104>> \o OptOutMarker \o <<105>>))],
     [text |-> <<1, 2>>,
      server |-> MkServer(Name18, 47, 20, 3, Some(<<104, 105>>))]}

\* serde_json::from_str::<Server>(&response): [ok, server]
from_str(response) ==
    IF response.kind = "json"
    THEN [ok |-> TRUE,
          server |-> MkServer(response.doc.name, response.doc.protocol,
                              response.doc.max, response.doc.online, None)]
    ELSE IF \E d \in StatusTexts : d.text = response.chars
    THEN [ok |-> TRUE,
          server |-> (CHOOSE d \in StatusTexts : d.text = response.chars).server]
    ELSE [ok |-> FALSE, server |-> NoServer]

check_opt_out(server) ==
    IF server.description_formatted.some
    THEN Contains(server.description_formatted.chars, OptOutMarker)
    ELSE FALSE

(***************************************************************************)
(* response.rs: Server::get_type.  It reads three fields of the record:    *)
(* modded and forge_data (Option: some is whether the key was present) and *)
(* version.name.  The names of the model are ASCII, where to_lowercase     *)
(* moves A-Z to a-z and leaves every other character alone.                *)
(***************************************************************************)
Absent == [some |-> FALSE, value |-> FALSE]

Present(value) == [some |-> TRUE, value |-> value]

TypedServer(modded, forge_data, name) ==
    [modded |-> modded, forge_data |-> forge_data,
     version |-> [name |-> name, protocol |-> 0]]

\* a lowering that leaves the name as it is
KeepCase(s) == s

\* str::to_lowercase on ASCII
to_lowercase(s) ==
    [i \in 1..Len(s) |-> IF s[i] >= 65 /\ s[i] <= 90 THEN s[i] + 32 ELSE s[i]]
\* "velocity"
KwVelocity == <<118, 101, 108, 111, 99, 105, 116, 121>>
\* "waterfall"
KwWaterfall == <<119, 97, 116, 101, 114, 102, 97, 108, 108>>
\* "bungeecord"
KwBungeecord == <<98, 117, 110, 103, 101, 101, 99, 111, 114, 100>>
\* "leaves"
KwLeaves == <<108, 101, 97, 118, 101, 115>>
\* "folia"
KwFolia == <<102, 111, 108, 105, 97>>
\* "purpur"
KwPurpur == <<112, 117, 114, 112, 117, 114>>
\* "pufferfish"
KwPufferfish == <<112, 117, 102, 102, 101, 114, 102, 105, 115, 104>>
\* "paper"
KwPaper == <<112, 97, 112, 101, 114>>
\* "spigot"
KwSpigot == <<115, 112, 105, 103, 111, 116>>
\* "bukkit"
KwBukkit == <<98, 117, 107, 107, 105, 116>>

\* a check that takes isModded: false for no key at all
ModdedTrue(modded) == modded.some /\ modded.value

\* response.rs:70: self.modded.is_some()
ModdedPresent(modded) == modded.some

\* response.rs:80-124: the checks on the lowered name, in their order
NameType(version_name) ==
    IF Contains(version_name, KwVelocity) THEN "Velocity"
    ELSE IF Contains(version_name, KwWaterfall) THEN "Waterfall"
    ELSE IF Contains(version_name, KwBungeecord) THEN "Bungeecord"
    ELSE IF Contains(version_name, KwLeaves) THEN "Leaves"
    ELSE IF Contains(version_name, KwFolia) THEN "Folia"
    ELSE IF Contains(version_name, KwPurpur) THEN "Purpur"
    ELSE IF Contains(version_name, KwPufferfish) THEN "Pufferfish"
    ELSE IF Contains(version_name, KwPaper) THEN "Paper"
    ELSE IF Contains(version_name, KwSpigot) THEN "Spigot"
    ELSE IF Contains(version_name, KwBukkit) THEN "Bukkit"
    ELSE "Java"

get_type(server) ==
    IF ModdedPresent(server.modded) THEN "Neoforge"
    ELSE IF server.forge_data.some THEN "Lexforge"
    ELSE NameType(to_lowercase(server.version.name))

(***************************************************************************)
(* utils.rs: MinecraftColorCodes.  A color is the name of its variant.     *)
(* Color strings are ASCII in the model, so a byte index is a character    *)
(* index.                                                                  *)
(***************************************************************************)
\* utils.rs:64-80: the names the match of From<&str> accepts
ColorNames ==
    {[name |-> <<98, 108, 97, 99, 107>>, color |-> "Black"],
     [name |-> <<100, 97, 114, 107, 95, 98, 108, 117, 101>>, color |-> "DarkBlue"],
     [name |-> <<100, 97, 114, 107, 95, 103, 114, 101, 101, 110>>, color |-> "DarkGreen"],
     [name |-> <<100, 97, 114, 107, 95, 97, 113, 117, 97>>, color |-> "DarkAqua"],
     [name |-> <<100, 97, 114, 107, 95, 114, 101, 100>>, color |-> "DarkRed"],
     [name |-> <<100, 97, 114, 107, 95, 112, 117, 114, 112, 108, 101>>, color |-> "DarkPurple"],
     [name |-> <<112, 117, 114, 112, 108, 101>>, color |-> "DarkPurple"],
     [name |-> <<103, 111, 108, 100>>, color |-> "Gold"],
     [name |-> <<103, 114, 97, 121>>, color |-> "Gray"],
     [name |-> <<103, 114, 101, 121>>, color |-> "Gray"],
     [name |-> <<100, 97, 114, 107, 95, 103, 114, 97, 121>>, color |-> "DarkGray"],
     [name |-> <<100, 97, 114, 107, 95, 103, 114, 101, 121>>, color |-> "DarkGray"],
     [name |-> <<98, 108, 117, 101>>, color |-> "Blue"],
     [name |-> <<103, 114, 101, 101, 110>>, color |-> "Green"],
     [name |-> <<97, 113, 117, 97>>, color |-> "Aqua"],
     [name |-> <<114, 101, 100>>, color |-> "Red"],
     [name |-> <<112, 105, 110, 107>>, color |-> "LightPurple"],
     [name |-> <<108, 105, 103, 104, 116, 95, 112, 117, 114, 112, 108, 101>>, color |-> "LightPurple"],
     [name |-> <<121, 101, 108, 108, 111, 119>>, color |-> "Yellow"],
     [name |-> <<119, 104, 105, 116, 101>>, color |-> "White"],
     [name |-> <<114, 101, 115, 101, 116>>, color |-> "Reset"]}

\* utils.rs:93-110: the palette, in its order
Palette ==
    <<[code |-> "Black", r |-> 0, g |-> 0, b |-> 0],
      [code |-> "DarkBlue", r |-> 0, g |-> 0, b |-> 170],
      [code |-> "DarkGreen", r |-> 0, g |-> 170, b |-> 0],
      [code |-> "DarkAqua", r |-> 0, g |-> 170, b |-> 170],
      [code |-> "DarkRed", r |-> 170, g |-> 0, b |-> 0],
      [code |-> "DarkPurple", r |-> 170, g |-> 0, b |-> 170],
      [code |-> "Gold", r |-> 255, g |-> 170, b |-> 0],
      [code |-> "Gray", r |-> 170, g |-> 170, b |-> 170],
      [code |-> "DarkGray", r |-> 85, g |-> 85, b |-> 85],
      [code |-> "Blue", r |-> 85, g |-> 85, b |-> 255],
      [code |-> "Green", r |-> 85, g |-> 255, b |-> 85],
      [code |-> "Aqua", r |-> 85, g |-> 255, b |-> 255],
      [code |-> "Red", r |-> 255, g |-> 85, b |-> 85],
      [code |-> "LightPurple", r |-> 255, g |-> 85, b |-> 255],
      [code |-> "Yellow", r |-> 255, g |-> 255, b |-> 85],
      [code |-> "White", r |-> 255, g |-> 255, b |-> 255]>>

\* the value of a hexadecimal digit, -1 for any other character
HexValue(c) ==
    IF c >= 48 /\ c <= 57 THEN c - 48
    ELSE IF c >= 65 /\ c <= 70 THEN c - 55
    ELSE IF c >= 97 /\ c <= 102 THEN c - 87
    ELSE -1

\* u8::from_str_radix(two characters, 16).unwrap_or(0): a leading '+' is
\* taken as a sign
FromStrRadix16(pair) ==
    IF pair[1] = 43
    THEN IF HexValue(pair[2]) >= 0 THEN HexValue(pair[2]) ELSE 0
    ELSE IF HexValue(pair[1]) >= 0 /\ HexValue(pair[2]) >= 0
    THEN HexValue(pair[1]) * 16 + HexValue(pair[2])
    ELSE 0

\* a comparison that also takes an entry at the same distance
CloserOrEqual(dist, min_dist) == dist <= min_dist

\* utils.rs:121: dist < min_dist
Closer(dist, min_dist) == dist < min_dist

\* utils.rs:115-125: the loop over the palette from entry i on
RECURSIVE NearestLoop(_, _, _, _, _, _)
NearestLoop(i, r, g, b, min_dist, closest) ==
    IF i > Len(Palette) THEN closest
    ELSE LET dr == Palette[i].r - r
             dg == Palette[i].g - g
             db == Palette[i].b - b
             dist == dr * dr + dg * dg + db * db
         IN  IF Closer(dist, min_dist)
             THEN NearestLoop(i + 1, r, g, b, dist, Palette[i].code)
             ELSE NearestLoop(i + 1, r, g, b, min_dist, closest)

\* utils.rs:88-128
hex_to_nearest_legacy(hex) ==
    NearestLoop(1, FromStrRadix16(SubSeq(hex, 2, 3)),
                FromStrRadix16(SubSeq(hex, 4, 5)),
                FromStrRadix16(SubSeq(hex, 6, 7)), I32Max, "Reset")

\* utils.rs:59-86: From<&str> for MinecraftColorCodes
ColorFrom(s) ==
    IF \E n \in ColorNames : n.name = s
    THEN (CHOOSE n \in ColorNames : n.name = s).color
    ELSE IF Len(s) = 7 /\ s[1] = 35 THEN hex_to_nearest_legacy(s)
    ELSE "UnknownValue"

\* utils.rs:130-154: get_code, the character as its code point
get_code(color) ==
    CASE color = "Black" -> 48
      [] color = "DarkBlue" -> 49
      [] color = "DarkGreen" -> 50
      [] color = "DarkAqua" -> 51
      [] color = "DarkRed" -> 52
      [] color = "DarkPurple" -> 53
      [] color = "Gold" -> 54
      [] color = "Gray" -> 55
      [] color = "DarkGray" -> 56
      [] color = "Blue" -> 57
      [] color = "Green" -> 97
      [] color = "Aqua" -> 98
      [] color = "Red" -> 99
      [] color = "LightPurple" -> 100
      [] color = "Yellow" -> 101
      [] color = "White" -> 102
      [] color = "Reset" -> 114
      [] color = "UnknownValue" -> 114

(***************************************************************************)
(* response.rs: Server::build_formatted_description.  A serde_json::Value  *)
(* is a string, a boolean, null, an array of values, or an object.  An     *)
(* object is written here as its fields in the order of the serialized     *)
(* text; serde_json parses them into a Map, which without the              *)
(* preserve_order feature (nothing under src/ asks for it) is a BTreeMap:  *)
(* iteration goes by key in byte order, whatever the serialized order was. *)
(***************************************************************************)
JString(chars) == [kind |-> "string", chars |-> chars]
JBool(b) == [kind |-> "bool", b |-> b]
JNull == [kind |-> "null"]
JArray(items) == [kind |-> "array", items |-> items]
JObject(fields) == [kind |-> "object", fields |-> fields]
JField(key, value) == [key |-> key, value |-> value]

\* the keys of the model's objects, in byte order
KeyOrder ==
    <<"bold", "clickEvent", "color", "extra", "italic", "obfuscated",
      "strikethrough", "text", "underline">>

ContainsKey(fields, key) == \E i \in 1..Len(fields) : fields[i].key = key

\* Map::get: the value of the last field written with the key
MapGet(fields, key) ==
    LET at == {i \in 1..Len(fields) : fields[i].key = key}
    IN  fields[CHOOSE i \in at : \A j \in at : j <= i].value

\* a Map that is walked in the order the fields were serialized in
SerializedKeys(fields) == [i \in 1..Len(fields) |-> fields[i].key]

\* response.rs:147: for (key, value) in object
MapKeys(fields) == SelectSeq(KeyOrder, LAMBDA k : ContainsKey(fields, k))

\* response.rs:149-183: the flags, each with the character of its code
FlagCodes ==
    {[key |-> "obfuscated", code |-> 107],
     [key |-> "bold", code |-> 108],
     [key |-> "strikethrough", code |-> 109],
     [key |-> "underline", code |-> 110],
     [key |-> "italic", code |-> 111]}

\* response.rs:148-192: what one key of the loop appends
KeyCode(key, value) ==
    IF \E f \in FlagCodes : f.key = key
    THEN IF value.kind = "bool" /\ value.b
         THEN <<SectionSign, (CHOOSE f \in FlagCodes : f.key = key).code>>
         ELSE <<>>
    ELSE IF key = "color" /\ value.kind = "string"
    THEN <<SectionSign, get_code(ColorFrom(value.chars))>>
    ELSE <<>>

\* response.rs:147-193: the loop over the keys from the i-th on
RECURSIVE ObjectCodes(_, _, _)
ObjectCodes(keys, fields, i) ==
    IF i > Len(keys) THEN <<>>
    ELSE KeyCode(keys[i], MapGet(fields, keys[i]))
         \o ObjectCodes(keys, fields, i + 1)

\* an object whose extra is written before its text
ExtraThenText(text, extra) == extra \o text

\* response.rs:198-210: the text is pushed, then the rendering of extra
TextThenExtra(text, extra) == text \o extra

RECURSIVE build_formatted_description(_)
RECURSIVE BuildItems(_, _)

\* response.rs:140-144: the elements of an array from the i-th on
BuildItems(items, i) ==
    IF i > Len(items) THEN <<>>
    ELSE build_formatted_description(items[i]) \o BuildItems(items, i + 1)

\* response.rs:136-215
build_formatted_description(value) ==
    IF value.kind = "string" THEN value.chars
    ELSE IF value.kind = "array" THEN BuildItems(value.items, 1)
    ELSE IF value.kind = "object"
    THEN LET fields == value.fields
             text == IF ContainsKey(fields, "text")
                        /\ MapGet(fields, "text").kind = "string"
                     THEN MapGet(fields, "text").chars ELSE <<>>
             extra == IF ContainsKey(fields, "extra")
                      THEN build_formatted_description(MapGet(fields, "extra"))
                      ELSE <<>>
         IN  ObjectCodes(MapKeys(fields), fields, 1)
             \o TextThenExtra(text, extra)
    ELSE <<>>

(***************************************************************************)
(* scanner.rs: task_wrapper.  env is everything outside the worker that    *)
(* decides what one invocation does: the peer on the modern connection,    *)
(* the peer on the legacy connection, the result of update_server ("ok" or *)
(* "err"), the build (overflow_checks), and which of two timers that       *)
(* expire together is seen first ("inner": the connect timeout of          *)
(* protocol.rs, "outer": the whole-attempt timeout of task_wrapper).       *)
(* A peer's delay is the second at which its ping future would complete.   *)
(***************************************************************************)
\* scanner.rs:502, 508: each attempt is wrapped in its own timeout of
\* TIMEOUT_SECS, whatever the attempts before it spent.
AttemptBudget(spent) == TIMEOUT_SECS

\* an attempt awaited with no timeout around it
NoTimeout(res, delay, budget, tie) ==
    [result |-> res.result, took |-> delay, str |-> res.str,
     panic |-> res.panic]

\* tokio::time::timeout(budget, future): [result, took, str, panic]
Timeout(res, delay, budget, tie) ==
    LET at == IF res.result = "TimedOut" THEN TIMEOUT_SECS ELSE delay
        inTime == /\ res.result # "Pending"
                  /\ \/ at < budget
                     \/ at = budget /\ tie = "inner"
    IN  IF inTime
        THEN [result |-> res.result, took |-> at, str |-> res.str,
              panic |-> res.panic]
        ELSE [result |-> "Elapsed", took |-> budget, str |-> NoString,
              panic |-> FALSE]

\* a wrapper that tries the legacy ping whatever the modern one gave
NeedLegacyAlways(proper_result) == TRUE

\* scanner.rs:504-507: the legacy ping runs when the modern one gave no string
NeedLegacy(proper_result) == proper_result # "Ok"

\* a wrapper that stores whatever from_str gave
StoreAlways(parsed_ok) == TRUE

\* scanner.rs:525-528: a response that parsed is handed to update_server
ShouldStore(parsed_ok) == parsed_ok

\* a wrapper that emits the event whatever update_server returned
LogEventAlways(db) == TRUE

\* scanner.rs:528-538: the event follows a successful update_server only
ShouldLogEvent(db) == db = "ok"

NoOut ==
    [calls |-> <<>>, proper |-> "NotAttempted", legacy |-> "NotAttempted",
     proper_took |-> 0, legacy_took |-> 0,
     consumed |-> 0, allocated |-> 0, body |-> 0,
     response |-> NoString, parsed |-> FALSE, server |-> NoServer,
     update_calls |-> 0, update_ok |-> FALSE, events |-> <<>>,
     panic |-> FALSE]

\* scanner.rs:526-539: Ok(server): update_server, then the event
TaskStore(db, out, server) ==
    LET stored == [out EXCEPT !.calls = @ \o <<"update_server">>,
                              !.server = server, !.update_calls = @ + 1,
                              !.update_ok = (db = "ok")]
    IN  IF ShouldLogEvent(db)
        THEN [stored EXCEPT !.calls = @ \o <<"log_event">>,
                            !.events = @ \o <<"SERVER_UPDATED">>]
        ELSE stored

\* scanner.rs:525-543: the match on serde_json::from_str
TaskParsed(db, out, parsed) ==
    IF ShouldStore(parsed.ok)
    THEN TaskStore(db, [out EXCEPT !.parsed = parsed.ok], parsed.server)
    ELSE [out EXCEPT !.parsed = parsed.ok]

\* scanner.rs:524: if let Some(response) = response
TaskResponse(db, out, response) ==
    TaskParsed(db, [out EXCEPT !.calls = @ \o <<"from_str">>,
                               !.response = response], from_str(response))

\* scanner.rs:508-519: the match on the legacy attempt
TaskAfterLegacy(db, out, l) ==
    IF l.panic
    THEN [out EXCEPT !.calls = @ \o <<"legacy_ping">>, !.legacy = "Panic",
                     !.legacy_took = l.took, !.panic = TRUE]
    ELSE IF l.result = "Ok"
    THEN TaskResponse(db,
             [out EXCEPT !.calls = @ \o <<"legacy_ping", "drop_legacy_stream">>,
                         !.legacy = l.result, !.legacy_took = l.took], l.str)
    ELSE [out EXCEPT !.calls = @ \o <<"legacy_ping", "drop_legacy_stream">>,
                     !.legacy = l.result, !.legacy_took = l.took]

\* scanner.rs:504-521: the match on proper_result
TaskAfterProper(e, out, p) ==
    IF NeedLegacy(p.result)
    THEN TaskAfterLegacy(e.db, out,
             Timeout(legacy_ping(e.legacy, e.overflow_checks), e.legacy.delay,
                     AttemptBudget(p.took), e.tie))
    ELSE TaskResponse(e.db, out, p.str)

\* scanner.rs:502: the modern attempt under its timeout
TaskProper(e, pr, p) ==
    TaskAfterProper(e,
        [NoOut EXCEPT !.calls = <<"proper_ping", "drop_proper_stream">>,
                      !.proper = p.result, !.proper_took = p.took,
                      !.consumed = pr.consumed, !.allocated = pr.allocated,
                      !.body = pr.body], p)

TaskStart(e, pr) ==
    TaskProper(e, pr, Timeout(pr, e.modern.delay, AttemptBudget(0), e.tie))

task_wrapper(e) == TaskStart(e, proper_ping(e.modern))

(***************************************************************************)
(* The peers and environments the model draws from.                        *)
(***************************************************************************)
ByteAlphabet == {0, 1, 2, 128}

Delays == {0, 3}

ModernPeer(conn, bytes, tail, delay) ==
    [conn |-> conn, bytes |-> bytes, tail |-> tail, delay |-> delay]

LegacyPeer(conn, read, buf, delay) ==
    [conn |-> conn, read |-> read, buf |-> buf, delay |-> delay]

\* every stream of at most MaxStream bytes, closed or left open after them
ModernStreams ==
    {ModernPeer("ok", b, t, d) :
        b \in SeqsUpTo(ByteAlphabet, MaxStream), t \in {"eof", "stall"},
        d \in Delays}

\* peers with which proper_ping yields no string
ModernFailing ==
    {ModernPeer("refused", <<>>, "eof", 0),
     ModernPeer("reset", <<>>, "eof", 3),
     ModernPeer("stall", <<>>, "stall", 0),
     ModernPeer("ok", <<>>, "stall", 0),
     ModernPeer("ok", <<1, 1>>, "eof", 3),
     ModernPeer("ok", <<2, 0, 2, 1>>, "eof", 0),
     ModernPeer("ok", <<0, 0, 128, 128, 8, 1>>, "eof", 0),
     ModernPeer("ok", <<0, 0, 128, 128, 8, 1>>, "stall", 3)}

\* a modern peer that answers with the status text <<1>>
ModernGood == ModernPeer("ok", <<3, 0, 1, 1>>, "stall", 0)

\* the UTF-16BE bytes of a string of code points below 65536
Utf16BE(chars) ==
    [i \in 1..(2 * Len(chars)) |->
        IF i % 2 = 1 THEN chars[(i + 1) \div 2] \div 256
        ELSE chars[i \div 2] % 256]

\* FF, the big-endian count of code units, the code units
LegacyFrame(chars) ==
    <<255, Len(chars) \div 256, Len(chars) % 256>> \o Utf16BE(chars)

\* "§1\0" "47" \0 "1.8" \0 "A" \0 "3" \0 "20"
Payload16 ==
    <<167, 49, 0, 52, 55, 0, 49, 46, 56, 0, 65, 0, 51, 0, 50, 48>>

\* "A§5§20"
PayloadOld == <<65, 167, 53, 167, 50, 48>>

LegacyBuffers ==
    {<<>>, <<254>>, <<255>>, <<255, 0>>, <<255, 0, 0>>,
     LegacyFrame(Payload16),
     LegacyFrame(PayloadOld),
     LegacyFrame(<<167, 49, 0, 52, 55>>),
     LegacyFrame(<<65, 167, 53>>),
     SubSeq(LegacyFrame(PayloadOld), 1, 9),
     LegacyFrame(PayloadOld) \o <<0, 65>>,
     <<255, 0, 1, 216, 0>>,
     <<255, 128, 2, 0, 167, 0, 167>>}

LegacyPeers ==
    {LegacyPeer("ok", "data", b, d) : b \in LegacyBuffers, d \in Delays}
    \cup {LegacyPeer("refused", "data", <<>>, 0),
          LegacyPeer("reset", "data", <<>>, 0),
          LegacyPeer("stall", "data", <<>>, 0),
          LegacyPeer("ok", "stall", <<>>, 0),
          LegacyPeer("ok", "error", <<>>, 3)}

LegacyGood == LegacyPeer("ok", "data", LegacyFrame(Payload16), 3)

LegacyBad == LegacyPeer("refused", "data", <<>>, 0)

Env(modern, legacy, db, overflow_checks, tie) ==
    [modern |-> modern, legacy |-> legacy, db |-> db,
     overflow_checks |-> overflow_checks, tie |-> tie]

\* the environments of SpecTask: every modern stream against a legacy peer
\* that answers and one that does not, and every legacy peer behind a
\* modern peer that yields no string
TaskEnvs ==
    {Env(m, l, db, FALSE, "outer") :
        m \in ModernStreams, l \in {LegacyGood, LegacyBad},
        db \in {"ok", "err"}}
    \cup {Env(m, l, db, oc, tie) :
        m \in ModernFailing, l \in LegacyPeers, db \in {"ok", "err"},
        oc \in BOOLEAN, tie \in {"inner", "outer"}}

\* the environments of a worker of Spec: one of each way an invocation ends
WorkerEnvs ==
    {Env(ModernGood, LegacyBad, "ok", FALSE, "outer"),
     Env(ModernGood, LegacyBad, "err", FALSE, "outer"),
     Env(ModernPeer("stall", <<>>, "stall", 0), LegacyGood, "ok", FALSE,
         "outer"),
     Env(ModernPeer("refused", <<>>, "eof", 0), LegacyBad, "ok", FALSE,
         "outer"),
     Env(ModernPeer("refused", <<>>, "eof", 0),
         LegacyPeer("ok", "data", <<255, 128, 2, 0, 167, 0, 167>>, 0),
         "ok", TRUE, "outer")}

(***************************************************************************)
(* The state.                                                              *)
(***************************************************************************)
VARIABLES
    config,     \* mode, repeat, engine, targeting: fixed once main has parsed
    exit,       \* "running", or "exit0" once std::process::exit(0) ran
    mainPc,     \* main's supervisor loop: "spawn" or "await"
    backoff,    \* main's backoff, in seconds
    restarts,   \* scanner-task panics since the last clean completion
    lastSleep,  \* the seconds main slept before the latest restart
    scanPc,     \* where the scanner task is
    scanTarget, \* discovery: the target resolved for this iteration
    lines,      \* discovery: stdout lines read in this iteration
    prod,       \* rescan: the producer task of this iteration
    chan,       \* rescan: the sockets buffered in the channel
    held,       \* rescan: the socket the consumer received and has not spawned
    permits,    \* the permits PERMITS has available
    workers,    \* the live worker tasks: how many of each kind
    lastExit,   \* how the worker that ended last ended
    env,        \* SpecTask: the environment of the invocation
    task        \* SpecTask: the invocation, and what it did

scanVars == <<scanPc, scanTarget, lines, prod, chan, held>>
mainVars == <<mainPc, backoff, restarts, lastSleep>>
poolVars == <<permits, workers, lastExit>>
taskVars == <<env, task>>
vars == <<config, exit, mainVars, scanVars, poolVars, taskVars>>

Addresses == 1..MaxRows
Ports == FirstPort..LastPort
Sockets == [ip : Addresses, port : Ports]
NoSocket == [ip |-> 0, port |-> 0]

\* a worker task in flight is told apart by whether it owns a permit; the
\* socket it was given is the peer of its task_wrapper, drawn when it runs
WorkerKinds == [permit : BOOLEAN]

RECURSIVE SumOver(_, _)
SumOver(f, S) ==
    IF S = {} THEN 0
    ELSE LET x == CHOOSE y \in S : TRUE
         IN  f[x] + SumOver(f, S \ {x})

InFlight == SumOver(workers, WorkerKinds)
PermitHolders == SumOver(workers, {k \in WorkerKinds : k.permit})
DiscoveryInFlight == SumOver(workers, {k \in WorkerKinds : ~k.permit})

\* worker tasks the model follows at once
MaxTasks == PermitCap + 1

\* what the storage stream yields for a row: an address that decodes, one
\* that does not, or an error.  The i-th row holds address i.
RowKinds == {"ok", "bad", "err"}
RowSeqs == SeqsUpTo(RowKinds, MaxRows)

NoProd == [pc |-> "none", rows |-> <<>>, pos |-> 0, port |-> 0]

Configs ==
    {[mode |-> "Rescanner", repeat |-> r, engine |-> "Masscan",
      custom_target |-> FALSE, country |-> FALSE] : r \in BOOLEAN}
    \cup [mode : {"Discovery"}, repeat : BOOLEAN,
          engine : {"Masscan", "Rustscan"},
          custom_target : BOOLEAN, country : BOOLEAN]

NoEnv == Env(ModernGood, LegacyBad, "ok", FALSE, "outer")

Init ==
    /\ config \in Configs
    /\ exit = "running"
    /\ mainPc = "spawn"
    /\ backoff = BackoffStart
    /\ restarts = 0
    /\ lastSleep = 0
    /\ scanPc = "none"
    /\ scanTarget = "none"
    /\ lines = 0
    /\ prod = NoProd
    /\ chan = <<>>
    /\ held = NoSocket
    /\ permits = PermitCap
    /\ workers = [k \in WorkerKinds |-> 0]
    /\ lastExit = "none"
    /\ env = NoEnv
    /\ task = [pc |-> "idle", out |-> NoOut]

(***************************************************************************)
(* main.rs:137-168: the supervisor.                                        *)
(***************************************************************************)
\* a backoff that doubles without the ceiling
NextBackoffUncapped(b) == b * 2

\* main.rs:165
NextBackoff(b) == Min(b * 2, BackoffCeiling)

\* main.rs:146-154 and scanner.rs:92-101: spawn the scanner task, which
\* starts the loop of its mode
MainSpawn ==
    /\ exit = "running"
    /\ mainPc = "spawn"
    /\ mainPc' = "await"
    /\ scanPc' = IF config.mode = "Rescanner" THEN "rs_loop" ELSE "ds_loop"
    /\ UNCHANGED <<config, exit, backoff, restarts, lastSleep, scanTarget,
                   lines, prod, chan, held, poolVars, taskVars>>

\* main.rs:156-167: handle.await returned
MainAwait ==
    /\ exit = "running"
    /\ mainPc = "await"
    /\ scanPc \in {"panicked", "returned"}
    /\ restarts < MaxRestarts
    /\ IF scanPc = "panicked"
       THEN /\ lastSleep' = backoff
            /\ backoff' = NextBackoff(backoff)
            /\ restarts' = restarts + 1
       ELSE /\ lastSleep' = 5
            /\ backoff' = BackoffStart
            /\ restarts' = 0
    /\ mainPc' = "spawn"
    /\ scanPc' = "none"
    /\ UNCHANGED <<config, exit, scanTarget, lines, prod, chan, held,
                   poolVars, taskVars>>

(***************************************************************************)
(* scanner.rs:104-209: Scanner::rescan.                                    *)
(***************************************************************************)
\* a scanner-task panic: the task's locals are dropped (the receiver, and
\* with it the buffered sockets); main sees Err at handle.await.  The
\* producer of the iteration lives on, but the send it waits in and every
\* later send fail (scanner.rs:143-146): it reads the rest of the stream,
\* drops every socket, and touches nothing else, so it is followed no
\* further.
ScannerPanics ==
    /\ scanPc' = "panicked"
    /\ chan' = <<>>
    /\ held' = NoSocket
    /\ prod' = NoProd
    /\ lines' = 0
    /\ scanTarget' = "none"

\* scanner.rs:116-149: a new channel, the query, the producer task
RescanBegin ==
    /\ exit = "running"
    /\ scanPc = "rs_loop"
    /\ \E rows \in RowSeqs :
          prod' = [pc |-> "fetch", rows |-> rows, pos |-> 0, port |-> 0]
    /\ chan' = <<>>
    /\ scanPc' = "rs_count"
    /\ UNCHANGED <<config, exit, mainVars, scanTarget, lines, held, poolVars,
                   taskVars>>

\* scanner.rs:151-155: count_servers().await.expect(..)
RescanCount ==
    /\ exit = "running"
    /\ scanPc = "rs_count"
    /\ \/ /\ scanPc' = "rs_recv"
          /\ UNCHANGED <<scanTarget, lines, prod, chan, held>>
       \/ ScannerPanics
    /\ UNCHANGED <<config, exit, mainVars, poolVars, taskVars>>

\* a loop that goes on past a row-level error
StreamYieldsPastErrors(rows) == rows # <<>>

\* scanner.rs:132: while let Some(Ok(row)) = stream.next().await goes on
\* while the stream yields a row, and ends at its end or its first error
StreamYields(rows) == rows # <<>> /\ Head(rows) # "err"

\* scanner.rs:132-136: stream.next().await, and the decoding of the address;
\* the sender is dropped with the task when the loop ends
ProducerFetch ==
    /\ exit = "running"
    /\ prod.pc = "fetch"
    /\ IF ~StreamYields(prod.rows)
       THEN prod' = [prod EXCEPT !.pc = "done", !.rows = <<>>]
       ELSE IF Head(prod.rows) = "bad" \/ FirstPort > LastPort
       THEN prod' = [prod EXCEPT !.rows = Tail(prod.rows), !.pos = @ + 1]
       ELSE prod' = [prod EXCEPT !.pc = "send", !.rows = Tail(prod.rows),
                                 !.pos = @ + 1, !.port = FirstPort]
    /\ UNCHANGED <<config, exit, mainVars, scanPc, scanTarget, lines, chan,
                   held, poolVars, taskVars>>

\* a channel that hands out the newest value first
ChannelSendFront(queue, sock) == <<sock>> \o queue

\* scanner.rs:122, 143: a tokio mpsc channel queues a sent value behind the
\* values sent before it
ChannelSend(queue, sock) == Append(queue, sock)

\* a range of ports that leaves its end out
RangeDoneBeforeEnd(port) == port >= LastPort - 1

\* scanner.rs:121, 142: the range of ports is inclusive, and is exhausted
\* once port_range_end was sent
RangeDone(port) == port = LastPort

\* a send that never waits
CanSendAlways(queue) == TRUE

\* scanner.rs:122, 143: send(..).await completes when the channel has room
CanSend(queue) == Len(queue) < ChannelCap

\* scanner.rs:142-147: tx.send(..).await, which waits while the channel is
\* full
ProducerSend ==
    /\ exit = "running"
    /\ prod.pc = "send"
    /\ CanSend(chan)
    /\ chan' = ChannelSend(chan, [ip |-> prod.pos, port |-> prod.port])
    /\ prod' = IF RangeDone(prod.port)
               THEN [prod EXCEPT !.pc = "fetch", !.port = 0]
               ELSE [prod EXCEPT !.port = @ + 1]
    /\ UNCHANGED <<config, exit, mainVars, scanPc, scanTarget, lines, held,
                   poolVars, taskVars>>

\* scanner.rs:168: rx.recv().await yields a socket, or None once the
\* producer has dropped the sender and the channel is empty
ConsumerRecv ==
    /\ exit = "running"
    /\ scanPc = "rs_recv"
    /\ IF chan # <<>>
       THEN /\ held' = Head(chan)
            /\ chan' = Tail(chan)
            /\ scanPc' = "rs_acquire"
       ELSE /\ prod.pc = "done"
            /\ scanPc' = "rs_sleep"
            /\ UNCHANGED <<chan, held>>
    /\ UNCHANGED <<config, exit, mainVars, scanTarget, lines, prod, poolVars,
                   taskVars>>

\* an acquire that never waits
CanAcquireAlways(available) == TRUE

\* scanner.rs:169: PERMITS.acquire().await completes when a permit is free
CanAcquire(available) == available > 0

ConsumerAcquire ==
    /\ exit = "running"
    /\ scanPc = "rs_acquire"
    /\ CanAcquire(permits)
    /\ permits' = permits - 1
    /\ scanPc' = "rs_spawn"
    /\ UNCHANGED <<config, exit, mainVars, scanTarget, lines, prod, chan,
                   held, workers, lastExit, taskVars>>

\* scanner.rs:174-180: a rescan worker owns the permit the consumer acquired
RescanWorker(sock) == [permit |-> TRUE]

\* scanner.rs:171-180: the worker task takes the socket and the permit
ConsumerSpawn ==
    /\ exit = "running"
    /\ scanPc = "rs_spawn"
    /\ workers' = [workers EXCEPT ![RescanWorker(held)] = @ + 1]
    /\ held' = NoSocket
    /\ scanPc' = "rs_recv"
    /\ UNCHANGED <<config, exit, mainVars, scanTarget, lines, prod, chan,
                   permits, lastExit, taskVars>>

\* a scanner that ignores repeat and always goes on
SingleShotNever(cfg) == FALSE

\* scanner.rs:195, 247: only one scan is requested
SingleShot(cfg) == ~cfg.repeat

\* scanner.rs:183-207: the 10-second sleep, then exit or the next iteration
RescanEnd ==
    /\ exit = "running"
    /\ scanPc = "rs_sleep"
    /\ IF SingleShot(config)
       THEN /\ exit' = "exit0"
            /\ UNCHANGED scanPc
       ELSE /\ scanPc' = "rs_loop"
            /\ UNCHANGED exit
    /\ prod' = NoProd
    /\ UNCHANGED <<config, mainVars, scanTarget, lines, chan, held, poolVars,
                   taskVars>>

(***************************************************************************)
(* scanner.rs:212-491: Scanner::discovery, run_masscan_once and            *)
(* run_rustscan_once.  A stdout line is the sequence of its whitespace-    *)
(* separated fields, and a field is given by what the parsers of the code  *)
(* make of it: slash_port is the u16 before the first '/', ip the Ipv4Addr *)
(* the whole field parses to, colon whether it holds a ':', colon_ip and   *)
(* colon_port what the parts around the first ':' parse to, open whether   *)
(* it starts with "Open".  0 stands for an address and -1 for a port that  *)
(* does not parse.                                                         *)
(***************************************************************************)
Field(text, slash_port, ip, colon, colon_ip, colon_port, open) ==
    [text |-> text, slash_port |-> slash_port, ip |-> ip, colon |-> colon,
     colon_ip |-> colon_ip, colon_port |-> colon_port, open |-> open]

Word(text) == Field(text, -1, 0, FALSE, 0, -1, FALSE)
PortField(port) == Field("port/tcp", port, 0, FALSE, 0, -1, FALSE)
IpField(ip) == Field("a.b.c.d", -1, ip, FALSE, 0, -1, FALSE)
OpenField == Field("Open", -1, 0, FALSE, 0, -1, TRUE)
HostPortField(ip, port) == Field("a.b.c.d:port", -1, 0, TRUE, ip, port, FALSE)

MasscanLines ==
    {<<Word("Discovered"), Word("open"), Word("port"), PortField(FirstPort),
       Word("on"), IpField(1)>>,
     <<Word("#masscan")>>,
     <<Word("Discovered"), Word("open"), Word("port"), Word("x/tcp"),
       Word("on"), IpField(1)>>,
     <<Word("Discovered"), Word("open"), Word("port"), PortField(FirstPort)>>,
     <<Word("Discovered"), Word("open"), Word("port"), PortField(FirstPort),
       Word("on"), Word("host")>>}

RustscanLines ==
    {<<OpenField, HostPortField(1, FirstPort)>>,
     <<Word("[~]"), Word("Starting")>>,
     <<OpenField>>,
     <<OpenField, Word("host")>>,
     <<OpenField, HostPortField(0, FirstPort)>>,
     <<OpenField, HostPortField(1, -1)>>}

ParsedLine(kind, ip, port) ==
    [kind |-> kind, sock |-> [ip |-> ip, port |-> port]]

\* scanner.rs:325-343: "skip" is continue, "panic" the unwrap of line 341
MasscanParse(line) ==
    IF Len(line) < 4 \/ line[4].slash_port < 0
    THEN ParsedLine("skip", 0, 0)
    ELSE IF Len(line) < 6 THEN ParsedLine("skip", 0, 0)
    ELSE IF line[6].ip = 0 THEN ParsedLine("panic", 0, 0)
    ELSE ParsedLine("target", line[6].ip, line[4].slash_port)

\* scanner.rs:465-476
RustscanParse(line) ==
    IF Len(line) = 0 \/ ~line[1].open THEN ParsedLine("skip", 0, 0)
    ELSE IF Len(line) < 2 THEN ParsedLine("skip", 0, 0)
    ELSE IF ~line[2].colon THEN ParsedLine("skip", 0, 0)
    ELSE IF line[2].colon_ip = 0 THEN ParsedLine("skip", 0, 0)
    ELSE IF line[2].colon_port < 0 THEN ParsedLine("skip", 0, 0)
    ELSE ParsedLine("target", line[2].colon_ip, line[2].colon_port)

\* scanner.rs:355-359, 486-489: a discovery worker is spawned with no permit
DiscoveryWorker(sock) == [permit |-> FALSE]

\* a selection that looks at the country code first
CountryFirst(cfg, fetched) ==
    IF cfg.country THEN (IF fetched THEN "file" ELSE "none")
    ELSE IF cfg.custom_target THEN "direct"
    ELSE "none"

\* scanner.rs:227-239: Target::Direct for a custom target; otherwise, for a
\* country code, Target::File when fetch_country_cidrs succeeds and None
\* when it fails; otherwise None
TargetOf(cfg, fetched) ==
    IF cfg.custom_target THEN "direct"
    ELSE IF cfg.country THEN (IF fetched THEN "file" ELSE "none")
    ELSE "none"

\* scanner.rs:270-280, 374-409: the target arguments the engine may be
\* launched with.  masscan gets the CIDR itself or -iL and the country
\* file, and no target argument without a target; rustscan gets -a and a
\* file of the hosts of the CIDR (the CIDR itself when it does not parse
\* or the file cannot be created) or the country file, and is not launched
\* without a target.
EngineTargetArgs(engine, target) ==
    IF target = "direct"
    THEN IF engine = "Masscan" THEN {"cidr"} ELSE {"cidr_hosts_file", "cidr"}
    ELSE IF target = "file" THEN {"country_file"}
    ELSE IF engine = "Masscan" THEN {"no_target"} ELSE {}

\* scanner.rs:226-239: the target of this iteration
DiscoveryResolve ==
    /\ exit = "running"
    /\ scanPc = "ds_loop"
    /\ \E fetched \in BOOLEAN : scanTarget' = TargetOf(config, fetched)
    /\ scanPc' = "ds_engine"
    /\ UNCHANGED <<config, exit, mainVars, lines, prod, chan, held, poolVars,
                   taskVars>>

\* an engine whose failed launch is logged and ends the iteration quietly
ReturnUnlessSpawned(spawned) == IF spawned THEN "ds_read" ELSE "ds_after"

\* scanner.rs:294-299, 434-439: Command::spawn().expect(..) goes on to the
\* line loop, or panics when the subprocess could not be launched
ExpectSpawned(spawned) == IF spawned THEN "ds_read" ELSE "panicked"

\* scanner.rs:264-300, 364-439: the arguments and Command::spawn().expect(..);
\* run_rustscan_once returns early when it has no target
EngineSpawn ==
    /\ exit = "running"
    /\ scanPc = "ds_engine"
    /\ IF config.engine = "Rustscan" /\ scanTarget = "none"
       THEN /\ scanPc' = "ds_after"
            /\ UNCHANGED <<scanTarget, lines, prod, chan, held>>
       ELSE \E spawned \in BOOLEAN :
               IF ExpectSpawned(spawned) = "panicked"
               THEN ScannerPanics
               ELSE /\ scanPc' = ExpectSpawned(spawned)
                    /\ lines' = 0
                    /\ UNCHANGED <<scanTarget, prod, chan, held>>
    /\ UNCHANGED <<config, exit, mainVars, poolVars, taskVars>>

\* scanner.rs:324-360, 463-490: one turn of the line loop
ReadLine ==
    /\ exit = "running"
    /\ scanPc = "ds_read"
    /\ \/ /\ scanPc' = "ds_after"
          /\ UNCHANGED <<scanTarget, lines, prod, chan, held, workers>>
       \/ /\ lines < MaxLines
          /\ \E line \in (IF config.engine = "Masscan" THEN MasscanLines
                          ELSE RustscanLines) :
               LET parsed == IF config.engine = "Masscan"
                             THEN MasscanParse(line) ELSE RustscanParse(line)
               IN  IF parsed.kind = "panic"
                   THEN ScannerPanics /\ UNCHANGED workers
                   ELSE /\ lines' = lines + 1
                        /\ IF parsed.kind = "target"
                           THEN /\ InFlight < MaxTasks
                                /\ workers' =
                                     [workers EXCEPT
                                        ![DiscoveryWorker(parsed.sock)] = @ + 1]
                           ELSE UNCHANGED workers
                        /\ UNCHANGED <<scanPc, scanTarget, prod, chan, held>>
    /\ UNCHANGED <<config, exit, mainVars, permits, lastExit, taskVars>>

\* scanner.rs:246-259: exit, or the next iteration
DiscoveryEnd ==
    /\ exit = "running"
    /\ scanPc = "ds_after"
    /\ IF SingleShot(config)
       THEN /\ exit' = "exit0"
            /\ UNCHANGED scanPc
       ELSE /\ scanPc' = "ds_loop"
            /\ UNCHANGED exit
    /\ UNCHANGED <<config, mainVars, scanTarget, lines, prod, chan, held,
                   poolVars, taskVars>>

(***************************************************************************)
(* A worker task: scanner.rs:174-180, 355-359, 486-489.  The task runs     *)
(* task_wrapper; when it ends, by return or by panic, its locals are       *)
(* dropped, the permit among them.                                         *)
(***************************************************************************)
\* a permit that is given back on return only, and leaks on a panic
ReleasedUnlessPanic(kind, panicked) ==
    IF kind.permit /\ ~panicked THEN 1 ELSE 0

\* the permits a worker of this kind gives back when it ends
ReleasedOnExit(kind, panicked) == IF kind.permit THEN 1 ELSE 0

\* a scanner task that awaits its workers and so dies of their panics
ScannerDiesWithWorker(pc, panicked) == IF panicked THEN "panicked" ELSE pc

\* what a worker's end does to the scanner task: tokio::spawn detaches the
\* worker and its JoinHandle is dropped, so nothing
ScannerAfterWorker(pc, panicked) == pc

\* how the invocations of task_wrapper end: by a panic or by a return
WorkerOutcomes == {task_wrapper(e).panic : e \in WorkerEnvs}

WorkerRun(kind) ==
    /\ exit = "running"
    /\ workers[kind] > 0
    /\ \E panicked \in WorkerOutcomes :
          /\ workers' = [workers EXCEPT ![kind] = @ - 1]
          /\ permits' = permits + ReleasedOnExit(kind, panicked)
          /\ lastExit' = IF panicked THEN "panic" ELSE "return"
          /\ scanPc' = ScannerAfterWorker(scanPc, panicked)
    /\ UNCHANGED <<config, exit, mainVars, scanTarget, lines, prod, chan,
                   held, taskVars>>

Worker == \E kind \in WorkerKinds : WorkerRun(kind)

Next ==
    \/ MainSpawn
    \/ MainAwait
    \/ RescanBegin
    \/ RescanCount
    \/ ProducerFetch
    \/ ProducerSend
    \/ ConsumerRecv
    \/ ConsumerAcquire
    \/ ConsumerSpawn
    \/ RescanEnd
    \/ DiscoveryResolve
    \/ EngineSpawn
    \/ ReadLine
    \/ DiscoveryEnd
    \/ Worker

Spec == Init /\ [][Next]_vars

\* the producer task is scheduled whenever it can take a step
SpecLive == Spec /\ WF_vars(ProducerFetch) /\ WF_vars(ProducerSend)

\* every task of the rescan is scheduled whenever it can take a step, and
\* every worker ends
SpecFair ==
    /\ Spec
    /\ WF_vars(ProducerFetch) /\ WF_vars(ProducerSend)
    /\ WF_vars(ConsumerRecv) /\ WF_vars(ConsumerAcquire)
    /\ WF_vars(ConsumerSpawn) /\ WF_vars(RescanEnd)
    /\ WF_vars(Worker)

(***************************************************************************)
(* SpecTask: one invocation of task_wrapper (scanner.rs:495-545) in every  *)
(* environment of TaskEnvs.  The scanner around it stands still.           *)
(***************************************************************************)
InitTask ==
    /\ config = [mode |-> "Rescanner", repeat |-> FALSE, engine |-> "Masscan",
                 custom_target |-> FALSE, country |-> FALSE]
    /\ exit = "running"
    /\ mainPc = "await"
    /\ backoff = BackoffStart
    /\ restarts = 0
    /\ lastSleep = 0
    /\ scanPc = "rs_recv"
    /\ scanTarget = "none"
    /\ lines = 0
    /\ prod = NoProd
    /\ chan = <<>>
    /\ held = NoSocket
    /\ permits = PermitCap
    /\ workers = [k \in WorkerKinds |-> 0]
    /\ lastExit = "none"
    /\ env \in TaskEnvs
    /\ task = [pc |-> "ready", out |-> NoOut]

TaskRun ==
    /\ task.pc = "ready"
    /\ task' = [pc |-> "done", out |-> task_wrapper(env)]
    /\ UNCHANGED <<config, exit, mainVars, scanVars, poolVars, env>>

NextTask == TaskRun

SpecTask == InitTask /\ [][NextTask]_vars

(***************************************************************************)
(* SpecPure: the pure functions of protocol.rs, response.rs and utils.rs,  *)
(* each applied once to every input of a bounded family.  env holds the    *)
(* input and the function it is for, task what the function returned.      *)
(***************************************************************************)
\* how far around each edge of the encoding the inputs of write_varint go
VarintSpread == 2

\* the values around 0, around every power of 128 and its negative, and at
\* both ends of i32
VarintInputs ==
    {sign * Pow2(7 * k) + d :
        sign \in {-1, 1}, k \in 0..4, d \in (0 - VarintSpread)..VarintSpread}
    \cup {I32Max - d : d \in 0..VarintSpread}
    \cup {(0 - I32Max) - 1 + d : d \in 0..VarintSpread}

\* the words version names are made of:
\* "Velocity" "WATERFALL" "BungeeCord" "Leaves" "folia" "Purpur" "Pufferfish"
\* "Paper" "Spigot" "CraftBukkit" "1.20.4" "Vanilla" "Pape" ""
NameWords ==
    {<<86, 101, 108, 111, 99, 105, 116, 121>>,
     <<87, 65, 84, 69, 82, 70, 65, 76, 76>>,
     <<66, 117, 110, 103, 101, 101, 67, 111, 114, 100>>,
     <<76, 101, 97, 118, 101, 115>>,
     <<102, 111, 108, 105, 97>>,
     <<80, 117, 114, 112, 117, 114>>,
     <<80, 117, 102, 102, 101, 114, 102, 105, 115, 104>>,
     <<80, 97, 112, 101, 114>>,
     <<83, 112, 105, 103, 111, 116>>,
     <<67, 114, 97, 102, 116, 66, 117, 107, 107, 105, 116>>,
     <<49, 46, 50, 48, 46, 52>>,
     <<86, 97, 110, 105, 108, 108, 97>>,
     <<80, 97, 112, 101>>,
     <<>>}

\* "<word> <word>"
VersionNames == {a \o <<32>> \o b : a \in NameWords, b \in NameWords}

GetTypeInputs ==
    {[fn |-> "get_type", server |-> TypedServer(modded, forge, name)] :
        modded \in {Absent, Present(FALSE), Present(TRUE)},
        forge \in {Absent, Present(TRUE)},
        name \in VersionNames}

\* the channel values the hex strings of the model are written from
HexLevels == {0, 17, 85, 128, 170, 213, 254, 255}

\* the digit d of a hex string, in upper or lower case
HexDigit(d, upper) ==
    IF d < 10 THEN 48 + d ELSE IF upper THEN 55 + d ELSE 87 + d

\* "#RRGGBB"
HexString(r, g, b, upper) ==
    <<35, HexDigit(r \div 16, upper), HexDigit(r % 16, upper),
          HexDigit(g \div 16, upper), HexDigit(g % 16, upper),
          HexDigit(b \div 16, upper), HexDigit(b % 16, upper)>>

ColorInputs ==
    {[fn |-> "color", s |-> HexString(r, g, b, upper),
      r |-> r, g |-> g, b |-> b] :
        r \in HexLevels, g \in HexLevels, b \in HexLevels,
        upper \in BOOLEAN}

\* color strings that are names, near names, and '#' followed by six
\* characters of which some are no hex digit ('G', '+')
ColorCodeInputs ==
    {[fn |-> "color_code", s |-> n.name] : n \in ColorNames}
    \cup {[fn |-> "color_code", s |-> <<35>> \o t] :
            t \in [1..6 -> {48, 70, 71, 43}]}
    \cup {[fn |-> "color_code", s |-> t] :
            t \in {<<>>, <<35>>, <<82, 69, 68>>, <<114, 101, 100, 100>>,
                   <<35, 70, 70, 70>>, <<70, 70, 53, 53, 53, 53>>,
                   <<48, 70, 70, 53, 53, 53, 53>>,
                   <<35, 70, 70, 53, 53, 53, 53, 53>>}}

\* fields a description object of the model has, at most
MaxFields == 4

\* "Hello", " World", "red", "#FF0000"
TextHello == <<72, 101, 108, 108, 111>>
TextWorld == <<32, 87, 111, 114, 108, 100>>
NameRed == <<114, 101, 100>>
HexRed == <<35, 70, 70, 48, 48, 48, 48>>

\* the fields the description objects of the model are made of
FieldPool ==
    {JField("text", JString(TextHello)),
     JField("extra", JArray(<<JObject(<<JField("text", JString(TextWorld))>>)>>)),
     JField("bold", JBool(TRUE)),
     JField("color", JString(NameRed)),
     JField("italic", JBool(TRUE)),
     JField("obfuscated", JBool(FALSE)),
     JField("clickEvent", JNull)}

\* every order in which the fields of the set S can be serialized
Orders(S) ==
    {p \in [1..Cardinality(S) -> S] :
        \A i, j \in 1..Cardinality(S) : p[i] = p[j] => i = j}

\* "a", {"color": "#FF0000", "text": "b"}, "c"
MixedArray ==
    JArray(<<JString(<<97>>),
             JObject(<<JField("color", JString(HexRed)),
                       JField("text", JString(<<98>>))>>),
             JString(<<99>>)>>)

MotdInputs ==
    {[fn |-> "motd", value |-> JObject(p)] :
        p \in UNION {Orders(S) :
                 S \in {T \in SUBSET FieldPool : Cardinality(T) <= MaxFields}}}
    \cup {[fn |-> "motd", value |-> v] :
            v \in {JString(<<167, 108>> \o TextHello), MixedArray, JNull,
                   JArray(<<>>)}}

\* the texts of the numeric fields of a legacy payload, each with the number
\* it stands for: "3" "20" "74" "x" "" "-1" "+5" "2147483648"
NumTexts ==
    {[text |-> <<51>>, value |-> 3],
     [text |-> <<50, 48>>, value |-> 20],
     [text |-> <<55, 52>>, value |-> 74],
     [text |-> <<120>>, value |-> 0],
     [text |-> <<>>, value |-> 0],
     [text |-> <<45, 49>>, value |-> -1],
     [text |-> <<43, 53>>, value |-> 5],
     [text |-> <<50, 49, 52, 55, 52, 56, 51, 54, 52, 56>>, value |-> 0]}

\* the texts of the numeric fields of the pre-1.6 payloads of the model
OldNumTexts == {n \in NumTexts : Len(n.text) <= 2}

\* "1.8", "MOTD"
Text18 == <<49, 46, 56>>
TextMotd == <<77, 79, 84, 68>>

\* the parts, with sep between each two
RECURSIVE Join(_, _)
Join(parts, sep) ==
    IF Len(parts) = 0 THEN <<>>
    ELSE IF Len(parts) = 1 THEN parts[1]
    ELSE parts[1] \o <<sep>> \o Join(Tail(parts), sep)

\* a legacy peer that answers at once with the bytes
LegacyInput(buf, overflow_checks, layout, fields) ==
    [fn |-> "legacy", peer |-> LegacyPeer("ok", "data", buf, 0),
     overflow_checks |-> overflow_checks, layout |-> layout,
     fields |-> fields]

\* §1 \0 protocol \0 version \0 motd \0 online \0 max, framed
Legacy16Inputs ==
    {LegacyInput(
        LegacyFrame(Join(<<<<SectionSign, 49>>, pr.text, v, m, on.text,
                           mx.text>>, 0)),
        oc, "1.6",
        [protocol |-> pr.value, version |-> v, motd |-> m,
         online |-> on.value, max |-> mx.value]) :
        pr \in NumTexts, v \in {Text18, <<>>}, m \in {TextHello, <<65>>},
        on \in NumTexts, mx \in NumTexts, oc \in BOOLEAN}

\* the numeric fields that follow the motd of a pre-1.6 payload, at most
MaxOldFields == 3

\* motd, then up to MaxOldFields numeric fields, § between, framed
LegacyOldInputs ==
    {LegacyInput(
        LegacyFrame(Join(<<m>> \o [i \in 1..Len(ns) |-> ns[i].text],
                         SectionSign)),
        oc, "old", [motd |-> m, nums |-> ns]) :
        m \in {TextMotd, <<65>>, <<>>},
        ns \in SeqsUpTo(OldNumTexts, MaxOldFields), oc \in BOOLEAN}

\* §1 \0 74 \0 1.8 \0 Hello \0 3 \0 20: 20 code units
PayloadS2 ==
    Join(<<<<SectionSign, 49>>, <<55, 52>>, Text18, TextHello, <<51>>,
           <<50, 48>>>>, 0)

\* the bytes of scenario S2 as the spec writes them: FF 00 1D, then the
\* payload
BytesS2 == <<255, 0, 29>> \o Utf16BE(PayloadS2)

LegacyRawInputs ==
    {LegacyInput(l.buf, oc, "raw", <<>>) : l \in LegacyPeers, oc \in BOOLEAN}
    \cup {LegacyInput(BytesS2, oc, "S2", <<>>) : oc \in BOOLEAN}

\* bytes of a stream handed to read_varint_from_stream, at most
MaxVarintBytes == 6

\* streams of bytes with and without the continuation bit
ReadVarintInputs ==
    {[fn |-> "read_varint", bytes |-> b] :
        b \in SeqsUpTo({0, 127, 128, 255}, MaxVarintBytes)}

PureInputs ==
    {[fn |-> "varint", x |-> x] : x \in VarintInputs}
    \cup ReadVarintInputs
    \cup GetTypeInputs
    \cup ColorInputs
    \cup ColorCodeInputs
    \cup MotdInputs
    \cup Legacy16Inputs
    \cup LegacyOldInputs
    \cup LegacyRawInputs

InitPure ==
    /\ config = [mode |-> "Rescanner", repeat |-> FALSE, engine |-> "Masscan",
                 custom_target |-> FALSE, country |-> FALSE]
    /\ exit = "running"
    /\ mainPc = "await"
    /\ backoff = BackoffStart
    /\ restarts = 0
    /\ lastSleep = 0
    /\ scanPc = "rs_recv"
    /\ scanTarget = "none"
    /\ lines = 0
    /\ prod = NoProd
    /\ chan = <<>>
    /\ held = NoSocket
    /\ permits = PermitCap
    /\ workers = [k \in WorkerKinds |-> 0]
    /\ lastExit = "none"
    /\ env \in PureInputs
    /\ task = [pc |-> "ready", out |-> <<>>]

PureUnchanged ==
    UNCHANGED <<config, exit, mainVars, scanVars, poolVars, env>>

\* write_varint, then both decoders on what it wrote
VarintRun ==
    /\ task.pc = "ready"
    /\ env.fn = "varint"
    /\ LET bytes == write_varint(env.x)
       IN  task' = [pc |-> "done",
                    out |-> [bytes |-> bytes,
                             decoded |-> decode_varint(bytes),
                             read |-> read_varint_from_stream(bytes, 1)]]
    /\ PureUnchanged

\* Server::get_type on the record
ReadVarintRun ==
    /\ task.pc = "ready"
    /\ env.fn = "read_varint"
    /\ task' = [pc |-> "done", out |-> read_varint_from_stream(env.bytes, 1)]
    /\ PureUnchanged

GetTypeRun ==
    /\ task.pc = "ready"
    /\ env.fn = "get_type"
    /\ task' = [pc |-> "done", out |-> get_type(env.server)]
    /\ PureUnchanged

\* MinecraftColorCodes::from on the string
ColorRun ==
    /\ task.pc = "ready"
    /\ env.fn = "color"
    /\ task' = [pc |-> "done", out |-> ColorFrom(env.s)]
    /\ PureUnchanged

\* Server::build_formatted_description on the value
\* response.rs:186-187: MinecraftColorCodes::from(c).get_code()
ColorCodeRun ==
    /\ task.pc = "ready"
    /\ env.fn = "color_code"
    /\ task' = [pc |-> "done", out |-> get_code(ColorFrom(env.s))]
    /\ PureUnchanged

MotdRun ==
    /\ task.pc = "ready"
    /\ env.fn = "motd"
    /\ task' = [pc |-> "done", out |-> build_formatted_description(env.value)]
    /\ PureUnchanged

\* PingableServer::legacy_ping against the peer
LegacyRun ==
    /\ task.pc = "ready"
    /\ env.fn = "legacy"
    /\ task' = [pc |-> "done",
                out |-> legacy_ping(env.peer, env.overflow_checks)]
    /\ PureUnchanged

NextPure ==
    \/ VarintRun
    \/ ReadVarintRun
    \/ GetTypeRun
    \/ ColorRun
    \/ ColorCodeRun
    \/ MotdRun
    \/ LegacyRun

SpecPure == InitPure /\ [][NextPure]_vars

(***************************************************************************)
(* The claims.                                                             *)
(***************************************************************************)
\* the permit the consumer holds between acquire and spawn
ConsumerPermits == IF scanPc = "rs_spawn" THEN 1 ELSE 0

\* C1: in rescan mode the worker tasks that were spawned and have not
\* finished never number more than the capacity of the semaphore, whatever
\* iteration or supervisor restart spawned them.
C1_RescanInFlightBounded ==
    config.mode = "Rescanner" => InFlight <= PermitCap

\* C1 witness: after a supervisor restart the consumer waits for a permit
\* while workers hold all of them.
C1_Witness ==
    /\ config.mode = "Rescanner"
    /\ restarts > 0
    /\ scanPc = "rs_acquire"
    /\ permits = 0
    /\ InFlight = PermitCap

\* C2 as claimed: in discovery mode the workers in flight never number more
\* than the capacity of the semaphore.
C2_DiscoveryInFlightBounded ==
    config.mode = "Discovery" => InFlight <= PermitCap

\* C3: permits are conserved: the free permits, those owned by live workers
\* and the one the consumer holds between acquire and spawn add up to the
\* capacity; no count is negative; once no worker is left and the consumer
\* holds none, every permit is free again.
C3_PermitsConserved ==
    /\ permits + PermitHolders + ConsumerPermits = PermitCap
    /\ permits >= 0
    /\ (InFlight = 0 /\ ConsumerPermits = 0) => permits = PermitCap

\* C3 witness: a rescan worker ended by a panic, and all permits are free.
C3_Witness ==
    /\ config.mode = "Rescanner"
    /\ lastExit = "panic"
    /\ InFlight = 0
    /\ permits = PermitCap

\* C4: after k consecutive restarts caused by a scanner-task panic the sleep
\* before the next attempt is min(2^k, 60) seconds (backoff holds it, and
\* lastSleep the sleep that went before restart number `restarts`), and the
\* backoff stays between 1 s and 60 s.
C4_Backoff ==
    /\ backoff >= 1
    /\ backoff <= 60
    /\ backoff = Min(Pow2(restarts), 60)
    /\ restarts > 0 => lastSleep = Min(Pow2(restarts - 1), 60)

\* C4 witness: the seventh consecutive panic (k = 6) was followed by a sleep
\* of min(64, 60) = 60 s.
C4_Witness ==
    /\ restarts >= 7
    /\ lastSleep = 60
    /\ backoff = 60

\* C5: a step in which a worker task ends by a panic leaves the scanner
\* task where it was, does not make the supervisor restart, does not end the
\* process, and leaves the channel, the producer and every other worker
\* alone.
C5_WorkerPanicIsolated ==
    [][(lastExit' = "panic" /\ InFlight' < InFlight) =>
          /\ scanPc' = scanPc
          /\ mainPc' = mainPc
          /\ restarts' = restarts
          /\ exit' = exit
          /\ chan' = chan
          /\ prod' = prod
          /\ held' = held
          /\ InFlight' = InFlight - 1]_vars

\* C5 witness: a worker has panicked, no scanner task ever has, the loop of
\* the scanner task is at its next turn and another worker is in flight.
C5_Witness ==
    /\ lastExit = "panic"
    /\ restarts = 0
    /\ scanPc \in {"rs_recv", "rs_acquire", "ds_read"}
    /\ InFlight > 0


\* how many times call x occurs in a call trace
CountOf(calls, x) == Cardinality({i \in 1..Len(calls) : calls[i] = x})

\* the legacy ping of the environment, before any timeout is put around it
LegacyUntimed == legacy_ping(env.legacy, env.overflow_checks)

\* the legacy future returns an error or a string strictly inside a budget
\* of TIMEOUT_SECS counted from its own start
LegacyReturnsInTime ==
    /\ LegacyUntimed.result \notin {"Pending", "TimedOut", "Panic"}
    /\ env.legacy.delay < TIMEOUT_SECS

\* C6: the modern ping is the first call and is made once; the legacy ping
\* is made exactly when the modern attempt gave no string, once, and only
\* after the modern stream was dropped; a legacy future that returns inside
\* TIMEOUT_SECS of its own start is never cut short, whatever the modern
\* attempt spent; a string of the modern attempt is the response and rules
\* the legacy attempt out even when it does not parse.
C6_ModernThenLegacy ==
    task.pc = "done" =>
        LET out == task.out
        IN  /\ out.calls[1] = "proper_ping"
            /\ out.calls[2] = "drop_proper_stream"
            /\ CountOf(out.calls, "proper_ping") = 1
            /\ out.proper \in {"Ok", "IOError", "MalformedResponse",
                               "TimedOut", "Elapsed"}
            /\ CountOf(out.calls, "legacy_ping")
                   = IF out.proper = "Ok" THEN 0 ELSE 1
            /\ out.proper # "Ok" => out.calls[3] = "legacy_ping"
            /\ (out.proper # "Ok" /\ LegacyReturnsInTime) =>
                   /\ out.legacy = LegacyUntimed.result
                   /\ out.legacy_took = env.legacy.delay
            /\ out.proper = "Ok" =>
                   /\ out.legacy = "NotAttempted"
                   /\ out.response = proper_ping(env.modern).str
                   /\ "from_str" \in {out.calls[i] : i \in 1..Len(out.calls)}

\* C6 witness: the modern attempt failed, the legacy attempt returned a
\* string, and the two together took longer than TIMEOUT_SECS.
C6_Witness ==
    /\ task.pc = "done"
    /\ task.out.proper \in {"IOError", "Elapsed"}
    /\ task.out.legacy = "Ok"
    /\ task.out.proper_took + task.out.legacy_took > TIMEOUT_SECS
    /\ task.out.response = LegacyUntimed.str

\* C7: update_server is called at most once per invocation, and exactly
\* when one of the two attempts returned a string and that string parsed;
\* with no string nothing is parsed and nothing is stored.
C7_StoreAtMostOnce ==
    task.pc = "done" =>
        LET out == task.out
            gotString == out.proper = "Ok" \/ out.legacy = "Ok"
        IN  /\ out.update_calls = CountOf(out.calls, "update_server")
            /\ out.update_calls <= 1
            /\ out.update_calls = 1 <=>
                   (gotString /\ from_str(out.response).ok)
            /\ ~gotString =>
                   /\ out.update_calls = 0
                   /\ CountOf(out.calls, "from_str") = 0
            /\ CountOf(out.calls, "log_event") <= out.update_calls

\* C7 witness: the modern attempt returned a string that does not parse, and
\* the invocation ended without a storage write.
C7_Witness ==
    /\ task.pc = "done"
    /\ task.out.proper = "Ok"
    /\ ~task.out.parsed
    /\ CountOf(task.out.calls, "from_str") = 1
    /\ task.out.update_calls = 0

\* C8 as claimed: a record whose formatted description holds the opt-out
\* marker is never handed to update_server.
C8_OptOutNotStored ==
    (task.pc = "done" /\ task.out.parsed /\ check_opt_out(task.out.server))
        => task.out.update_calls = 0

\* the modern peer answers in time with a response whose packet id is not 0
BadPacketId ==
    LET plen == read_varint_from_stream(env.modern.bytes, 1)
        pid  == read_varint_from_stream(env.modern.bytes, plen.pos)
    IN  /\ env.modern.conn = "ok"
        /\ env.modern.delay < TIMEOUT_SECS
        /\ plen.kind = "ok"
        /\ pid.kind = "ok"
        /\ Narrow(pid.wide) # 0

\* the bytes of the modern stream up to and including the packet id
ThroughPacketId ==
    LET plen == read_varint_from_stream(env.modern.bytes, 1)
    IN  read_varint_from_stream(env.modern.bytes, plen.pos).pos - 1

\* C9 as claimed: a packet id other than 0 makes the modern path yield
\* MalformedResponse without reading the body, and the worker ends without
\* touching storage.
C9_BadPacketIdNoStorage ==
    (task.pc = "done" /\ BadPacketId) =>
        /\ task.out.proper = "MalformedResponse"
        /\ task.out.body = 0
        /\ task.out.update_calls = 0

\* C9, amended: a packet id other than 0 makes the modern path yield
\* MalformedResponse with nothing read past the packet id and no buffer
\* allocated; the legacy attempt follows, and storage is written exactly
\* when that attempt returns a string.
C9_BadPacketIdThenLegacy ==
    (task.pc = "done" /\ BadPacketId) =>
        /\ task.out.proper = "MalformedResponse"
        /\ task.out.consumed = ThroughPacketId
        /\ task.out.body = 0
        /\ task.out.allocated = 0
        /\ CountOf(task.out.calls, "legacy_ping") = 1
        /\ task.out.update_calls = 1 <=> task.out.legacy = "Ok"

\* C9 witness: the packet id was not 0, the legacy attempt returned a
\* string, and the record was stored.
C9_Witness ==
    /\ task.pc = "done"
    /\ BadPacketId
    /\ task.out.proper = "MalformedResponse"
    /\ task.out.legacy = "Ok"
    /\ task.out.update_calls = 1

\* C10 as claimed: the buffer proper_ping allocates is never larger than
\* the number of bytes read from the peer.
C10_AllocationBoundedByRead ==
    task.pc = "done" => task.out.allocated <= task.out.consumed

\* the modern peer answers with packet id 0 and declares a string length
DeclaresLength ==
    LET plen == read_varint_from_stream(env.modern.bytes, 1)
        pid  == read_varint_from_stream(env.modern.bytes, plen.pos)
        jlen == read_varint_from_stream(env.modern.bytes, pid.pos)
    IN  /\ env.modern.conn = "ok"
        /\ plen.kind = "ok"
        /\ pid.kind = "ok"
        /\ Narrow(pid.wide) = 0
        /\ jlen.kind = "ok"

\* the string length the modern peer declares
DeclaredLength ==
    LET plen == read_varint_from_stream(env.modern.bytes, 1)
        pid  == read_varint_from_stream(env.modern.bytes, plen.pos)
    IN  Narrow(read_varint_from_stream(env.modern.bytes, pid.pos).wide)

\* C11 as claimed: a response whose declared string length is above the
\* ceiling of 32767 * 4 makes proper_ping return an error with no byte of
\* the body read and no buffer allocated.
C11_CeilingEnforced ==
    (task.pc = "done" /\ DeclaresLength /\ DeclaredLength > JsonLenCeiling) =>
        /\ task.out.proper # "Ok"
        /\ task.out.body = 0
        /\ task.out.allocated = 0

\* a usize in two parts holds the same number as the integer x
WideEquals(w, x) ==
    /\ x >= 0
    /\ w.hi < 8
    /\ Narrow(w) = x

\* C12 as claimed: for every i32 x, write_varint(x) is 1 to 5 bytes long,
\* and decode_varint and read_varint_from_stream give x back and consume
\* exactly the bytes written.
C12_VarintRoundTrip ==
    (task.pc = "done" /\ env.fn = "varint") =>
        /\ Len(task.out.bytes) \in 1..5
        /\ task.out.decoded.n = Len(task.out.bytes)
        /\ WideEquals(task.out.decoded.wide, env.x)
        /\ task.out.read.kind = "ok"
        /\ task.out.read.pos - 1 = Len(task.out.bytes)
        /\ WideEquals(task.out.read.wide, env.x)

\* C13: get_type gives "Neoforge" whenever modded is present, true or
\* false, whatever forge_data and the name are; otherwise "Lexforge"
\* whenever forge_data is present, whatever the name is; and one of the
\* name-based types only when both are absent.
C13_ClassifierOverride ==
    (task.pc = "done" /\ env.fn = "get_type") =>
        /\ env.server.modded.some => task.out = "Neoforge"
        /\ (~env.server.modded.some /\ env.server.forge_data.some) =>
               task.out = "Lexforge"
        /\ (~env.server.modded.some /\ ~env.server.forge_data.some) =>
               task.out \notin {"Neoforge", "Lexforge"}

\* C13 witness: isModded is false, forge_data is present, the name holds
\* "Paper", and the type is Neoforge.
C13_Witness ==
    /\ task.pc = "done"
    /\ env.fn = "get_type"
    /\ env.server.modded = Present(FALSE)
    /\ env.server.forge_data.some
    /\ Contains(env.server.version.name, <<80, 97, 112, 101, 114>>)
    /\ task.out = "Neoforge"

\* the same letter, whatever the case
SameLetter(a, b) ==
    \/ a = b
    \/ a >= 65 /\ a <= 90 /\ b = a + 32
    \/ b >= 65 /\ b <= 90 /\ a = b + 32

\* kw occurs in name as a substring, case not counted
OccursIn(name, kw) ==
    \E i \in 1..(Len(name) - Len(kw) + 1) :
        \A j \in 1..Len(kw) : SameLetter(name[i + j - 1], kw[j])

\* the keywords and their types, in the order of the claim
KeywordOrder ==
    <<[kw |-> KwVelocity, type |-> "Velocity"],
      [kw |-> KwWaterfall, type |-> "Waterfall"],
      [kw |-> KwBungeecord, type |-> "Bungeecord"],
      [kw |-> KwLeaves, type |-> "Leaves"],
      [kw |-> KwFolia, type |-> "Folia"],
      [kw |-> KwPurpur, type |-> "Purpur"],
      [kw |-> KwPufferfish, type |-> "Pufferfish"],
      [kw |-> KwPaper, type |-> "Paper"],
      [kw |-> KwSpigot, type |-> "Spigot"],
      [kw |-> KwBukkit, type |-> "Bukkit"]>>

\* C14: with neither modded nor forge_data, get_type gives the type of the
\* first keyword of the order that occurs in version.name, case not
\* counted, and "Java" when none occurs.
C14_NameClassification ==
    (/\ task.pc = "done"
     /\ env.fn = "get_type"
     /\ ~env.server.modded.some
     /\ ~env.server.forge_data.some) =>
        LET name == env.server.version.name
            hits == {i \in 1..Len(KeywordOrder) :
                        OccursIn(name, KeywordOrder[i].kw)}
        IN  IF hits = {} THEN task.out = "Java"
            ELSE \E i \in hits :
                    /\ \A j \in hits : i <= j
                    /\ task.out = KeywordOrder[i].type

\* C14 witness: the name is "Spigot Paper", neither field is present, and the
\* type is Paper.
C14_Witness ==
    /\ task.pc = "done"
    /\ env.fn = "get_type"
    /\ ~env.server.modded.some
    /\ ~env.server.forge_data.some
    /\ env.server.version.name
           = <<83, 112, 105, 103, 111, 116, 32, 80, 97, 112, 101, 114>>
    /\ task.out = "Paper"

\* the squared distance from the color of the input to palette entry i
DistanceTo(i) ==
    (Palette[i].r - env.r) * (Palette[i].r - env.r)
    + (Palette[i].g - env.g) * (Palette[i].g - env.g)
    + (Palette[i].b - env.b) * (Palette[i].b - env.b)

\* C17: for a #RRGGBB string the color returned is a palette entry at the
\* least squared distance from (RR, GG, BB), and the earliest such entry of
\* the palette; the RGB value of a palette entry gives that entry.
C17_NearestLegacyColor ==
    (task.pc = "done" /\ env.fn = "color") =>
        /\ \E i \in 1..Len(Palette) :
              /\ task.out = Palette[i].code
              /\ \A j \in 1..Len(Palette) :
                    /\ DistanceTo(i) <= DistanceTo(j)
                    /\ j < i => DistanceTo(j) > DistanceTo(i)
        /\ \A i \in 1..Len(Palette) :
              DistanceTo(i) = 0 => task.out = Palette[i].code

\* C17 witness: #000055 is as far from black as from dark blue, and black,
\* the earlier entry, is returned.
C17_Witness ==
    /\ task.pc = "done"
    /\ env.fn = "color"
    /\ env.s = <<35, 48, 48, 48, 48, 53, 53>>
    /\ DistanceTo(1) = DistanceTo(2)
    /\ task.out = "Black"

\* the input of build_formatted_description is an object
ObjectInput == env.fn = "motd" /\ env.value.kind = "object"

\* the fields of the object, as a set
FieldSet == {env.value.fields[i] : i \in 1..Len(env.value.fields)}

\* C15: an object with text and extra, and whatever flags and color, is
\* rendered to the same string in every order its fields can be serialized
\* in.
C15_FieldOrderIndependent ==
    (/\ task.pc = "done"
     /\ ObjectInput
     /\ ContainsKey(env.value.fields, "text")
     /\ ContainsKey(env.value.fields, "extra")) =>
        \A q \in Orders(FieldSet) :
            build_formatted_description(JObject(q)) = task.out

\* C15 witness: an object serialized as color, extra, text, bold was
\* rendered, codes first.
C15_Witness ==
    /\ task.pc = "done"
    /\ ObjectInput
    /\ SerializedKeys(env.value.fields) = <<"color", "extra", "text", "bold">>
    /\ task.out = <<167, 108, 167, 99>> \o TextHello \o TextWorld

\* the flags of the object that are true
TrueFlags ==
    {f \in FlagCodes :
        \E i \in 1..Len(env.value.fields) :
            env.value.fields[i] = JField(f.key, JBool(TRUE))}

\* the characters of the codes the object asks for: one for each true flag,
\* and c when the color is red
WantedCodes ==
    {f.code : f \in TrueFlags}
    \cup (IF ContainsKey(env.value.fields, "color") THEN {99} ELSE {})

\* C16: an object is rendered as its format codes, one for each true flag
\* and one for the color, then its text, then the rendering of its extra; a
\* bare string is rendered as itself, an array as its elements one after
\* another; the object of scenario S6 is rendered as "§l§cHello World".
C16_CodesTextExtra ==
    (task.pc = "done" /\ env.fn = "motd") =>
        /\ ObjectInput =>
              LET n == Cardinality(WantedCodes)
                  text == IF ContainsKey(env.value.fields, "text")
                          THEN TextHello ELSE <<>>
                  extra == IF ContainsKey(env.value.fields, "extra")
                           THEN TextWorld ELSE <<>>
              IN  /\ Len(task.out) = 2 * n + Len(text) + Len(extra)
                  /\ \A k \in 1..n : task.out[2 * k - 1] = 167
                  /\ {task.out[2 * k] : k \in 1..n} = WantedCodes
                  /\ SubSeq(task.out, 2 * n + 1, Len(task.out)) = text \o extra
        /\ env.value.kind = "string" => task.out = env.value.chars
        /\ env.value = MixedArray => task.out = <<97, 167, 52, 98, 99>>
        /\ (/\ ObjectInput
            /\ SerializedKeys(env.value.fields)
                   = <<"extra", "bold", "color", "text">>) =>
              task.out = <<167, 108, 167, 99>> \o TextHello \o TextWorld

\* C16 witness: the object of scenario S6, with extra serialized first, was
\* rendered as "§l§cHello World".
C16_Witness ==
    /\ task.pc = "done"
    /\ ObjectInput
    /\ SerializedKeys(env.value.fields) = <<"extra", "bold", "color", "text">>
    /\ task.out = <<167, 108, 167, 99, 72, 101, 108, 108, 111,
                    32, 87, 111, 114, 108, 100>>

\* the peer of a legacy input sent bytes
LegacyAnswered ==
    env.fn = "legacy" /\ env.peer.conn = "ok" /\ env.peer.read = "data"

\* the bytes are FF, a big-endian count, and exactly 2 * count bytes of
\* valid UTF-16BE
WellFramed(buf) ==
    /\ Len(buf) >= 3
    /\ buf[1] = 255
    /\ Len(buf) = 3 + 2 * (buf[2] * 256 + buf[3])
    /\ FromUtf16(CodeUnits(SubSeq(buf, 4, Len(buf))), 1).ok

\* C18 as claimed: legacy_ping yields a string only for a response that is
\* FF, a big-endian count and exactly 2 * count bytes of valid UTF-16BE, and
\* MalformedResponse for every other response.
C18_LegacyValidation ==
    (task.pc = "done" /\ LegacyAnswered) =>
        /\ task.out.result = "Ok" => WellFramed(env.peer.buf)
        /\ ~WellFramed(env.peer.buf) => task.out.result = "MalformedResponse"

\* the document legacy_ping returned holds the fields of a 1.6 input
Is16Document ==
    /\ task.out.result = "Ok"
    /\ task.out.str.kind = "json"
    /\ task.out.str.doc.name = env.fields.version
    /\ task.out.str.doc.protocol = env.fields.protocol
    /\ task.out.str.doc.online = env.fields.online
    /\ task.out.str.doc.max = env.fields.max
    /\ task.out.str.doc.motd = env.fields.motd

\* the document legacy_ping returned is that of scenario S2
IsS2Document ==
    /\ task.out.result = "Ok"
    /\ task.out.str.kind = "json"
    /\ task.out.str.doc.name = Text18
    /\ task.out.str.doc.online = 3
    /\ task.out.str.doc.max = 20
    /\ task.out.str.doc.motd = TextHello

\* C19 as claimed: a well-formed response with a 1.6 payload gives the
\* document of its fields, and the bytes FF 00 1D followed by the payload of
\* scenario S2 give version 1.8, online 3, max 20, description Hello.
C19_Legacy16WithS2 ==
    (task.pc = "done" /\ env.fn = "legacy") =>
        /\ env.layout = "1.6" => Is16Document
        /\ env.layout = "S2" => IsS2Document

\* C19, amended: a well-formed response with a 1.6 payload gives the
\* document of its fields, a numeric field that is no decimal i32 counting
\* as 0; the payload of scenario S2 is 20 code units long, and the bytes
\* FF 00 14 followed by it give version 1.8, protocol 74, online 3, max 20,
\* description Hello, while FF 00 1D followed by it is a MalformedResponse.
C19_Legacy16 ==
    (task.pc = "done" /\ env.fn = "legacy") =>
        /\ env.layout = "1.6" => Is16Document
        /\ env.peer.buf = <<255, 0, 20>> \o Utf16BE(PayloadS2) =>
               IsS2Document /\ task.out.str.doc.protocol = 74
        /\ env.layout = "S2" => task.out.result = "MalformedResponse"

\* C19 witness: the payload of scenario S2 under the count 0x14 was decoded.
C19_Witness ==
    /\ task.pc = "done"
    /\ env.fn = "legacy"
    /\ env.layout = "1.6"
    /\ env.peer.buf = <<255, 0, 20>> \o Utf16BE(PayloadS2)
    /\ IsS2Document

\* C20 as claimed: a well-formed response whose payload does not start with
\* §1\0 gives a string exactly when the payload has the three fields motd,
\* online, max, and then the document "Legacy < 1.6", protocol 0, with its
\* online and max; every other field count is a MalformedResponse.
C20_LegacyOldExactlyThree ==
    (task.pc = "done" /\ env.fn = "legacy" /\ env.layout = "old") =>
        IF Len(env.fields.nums) = 2
        THEN /\ task.out.result = "Ok"
             /\ task.out.str.doc.name = LegacyName
             /\ task.out.str.doc.protocol = 0
             /\ task.out.str.doc.online = env.fields.nums[1].value
             /\ task.out.str.doc.max = env.fields.nums[2].value
        ELSE task.out.result = "MalformedResponse"

\* the producer emits socket a before socket b: rows come in the order of
\* the query (the i-th row holds address i), and the ports of a row ascend
Before(a, b) == a.ip < b.ip \/ (a.ip = b.ip /\ a.port < b.port)

\* the socket the producer is about to send
NextEmitted == [ip |-> prod.pos, port |-> prod.port]

\* the channel holds sockets in the order of emission, behind the socket
\* the consumer holds and ahead of the one the producer sends next
InEmissionOrder ==
    /\ \A i \in 1..Len(chan) : \A j \in 1..Len(chan) :
          i < j => Before(chan[i], chan[j])
    /\ (held # NoSocket /\ chan # <<>>) => Before(held, chan[1])
    /\ prod.pc = "send" =>
          /\ \A i \in 1..Len(chan) : Before(chan[i], NextEmitted)
          /\ held # NoSocket => Before(held, NextEmitted)

\* a step adds to the channel at its tail, the consumer receives the head
\* of the channel, and a rescan worker is spawned for the socket received
FifoStep ==
    /\ Len(chan') > Len(chan) => chan' = Append(chan, NextEmitted)
    /\ (held' # held /\ held' # NoSocket) =>
          /\ held = NoSocket
          /\ chan # <<>>
          /\ held' = Head(chan)
          /\ chan' = Tail(chan)
    /\ workers'[RescanWorker(held)] > workers[RescanWorker(held)] =>
          /\ held # NoSocket
          /\ held' = NoSocket

\* C21: within one rescan iteration the consumer receives the sockets in
\* the order the producer emitted them (rows in the order of the query, the
\* ports of a row ascending): the channel is first-in first-out, and a
\* worker is spawned for each socket as it is received.
C21_RescanFifo ==
    []InEmissionOrder /\ [][FifoStep]_vars

\* C21 witness: the consumer holds the first socket of a row while the
\* channel is full of the sockets emitted after it and the producer waits
\* to send a socket of the next row.
C21_Witness ==
    /\ config.mode = "Rescanner"
    /\ held # NoSocket
    /\ Len(chan) = ChannelCap
    /\ Before(held, chan[1])
    /\ prod.pc = "send"
    /\ prod.pos > held.ip

\* the producer waits in send(..).await on a full channel
ProducerBlocked == prod.pc = "send" /\ Len(chan) = ChannelCap

\* every permit is held by a worker and the consumer waits for one
ConsumerStarved == scanPc = "rs_acquire" /\ permits = 0

AtLoopHead(pc) == pc \in {"rs_loop", "ds_loop"}

\* the scanner task is past the iteration, before the test of repeat
AtLoopEnd(pc) == pc \in {"rs_sleep", "ds_after"}

\* the step takes the scanner task to the head of its loop
IterationStarts == AtLoopHead(scanPc') /\ ~AtLoopHead(scanPc)

\* the step is taken by the scanner task at the end of an iteration
IterationEnds == AtLoopEnd(scanPc) /\ (scanPc' # scanPc \/ exit' # exit)

NothingToLaunch == config.engine = "Rustscan" /\ scanTarget = "none"

\* C24: the scanner task leaves the launch of the engine for the line loop
\* or, when the launch failed, by a panic, and never by a quiet end of the
\* iteration (rustscan without a target launches nothing); the panic reads
\* no line, spawns no worker and does not end the process; the supervisor
\* then sleeps the current backoff, doubles it up to 60 s, and spawns a new
\* scanner task, which starts at the head of the discovery loop.
C24_SpawnFailureRestarts ==
    /\ [][(scanPc = "ds_engine" /\ scanPc' # scanPc) =>
             /\ scanPc' \in {"ds_read", "panicked", "ds_after"}
             /\ scanPc' = "ds_after" <=> NothingToLaunch
             /\ scanPc' = "panicked" =>
                   /\ lines' = 0
                   /\ workers' = workers
                   /\ exit' = "running"
                   /\ mainPc' = "await"]_vars
    /\ [][(scanPc = "panicked" /\ scanPc' # scanPc) =>
             /\ scanPc' = "none"
             /\ mainPc' = "spawn"
             /\ lastSleep' = backoff
             /\ backoff' = Min(2 * backoff, BackoffCeiling)
             /\ exit' = "running"]_vars
    /\ [][(mainPc = "spawn" /\ mainPc' # mainPc /\ config.mode = "Discovery")
             => scanPc' = "ds_loop" /\ exit' = "running"]_vars
    /\ [](scanPc = "panicked" => exit = "running" /\ lines = 0)

\* C24 witness: the launch of rustscan, whose line loop cannot panic,
\* failed twice in a row; the supervisor slept 1 s and then 2 s, and the
\* third scanner task is about to launch the engine.
C24_Witness ==
    /\ config.mode = "Discovery"
    /\ config.engine = "Rustscan"
    /\ scanPc = "ds_engine"
    /\ restarts = 2
    /\ lastSleep = 2
    /\ InFlight = 0
    /\ exit = "running"

\* C25 as claimed: whatever line the engine writes, a turn of the line loop
\* either goes on to the next line, having spawned a worker or skipped the
\* line, or ends the loop at the end of the output; it never makes the
\* scanner task fail.
C25_BadLinesSkipped ==
    [][scanPc = "ds_read" =>
          /\ scanPc' \in {"ds_read", "ds_after"}
          /\ InFlight' <= InFlight + 1]_vars

\* the scanner task has selected the target of the iteration
TargetSelected == scanPc \in {"ds_engine", "ds_read", "ds_after"}

\* C26: once the target of a discovery iteration is selected, a configured
\* custom target is the target, the engine is launched with the CIDR or
\* with the file of its hosts and never with a country file; and the
\* target is a country file only when no custom target is configured and a
\* country code is.
C26_CustomTargetFirst ==
    TargetSelected =>
        /\ config.custom_target =>
              /\ scanTarget = "direct"
              /\ EngineTargetArgs(config.engine, scanTarget)
                    \subseteq {"cidr", "cidr_hosts_file"}
        /\ scanTarget = "file" => ~config.custom_target /\ config.country
        /\ scanTarget = "direct" => config.custom_target

\* C26 witness: with a custom target and a country code both configured,
\* the engine runs on the custom target.
C26_Witness ==
    /\ config.custom_target
    /\ config.country
    /\ scanPc = "ds_read"
    /\ scanTarget = "direct"

PositionsOf(calls, x) == {i \in 1..Len(calls) : calls[i] = x}

\* C28: an invocation of task_wrapper emits SERVER_UPDATED exactly when its
\* update_server returned success, once, and as the call that follows that
\* update_server; when update_server fails no event is emitted and the
\* invocation returns without a panic.
C28_EventIffStored ==
    task.pc = "done" =>
        LET out == task.out
        IN  /\ out.events = (IF out.update_ok THEN <<"SERVER_UPDATED">>
                             ELSE <<>>)
            /\ CountOf(out.calls, "log_event") = Len(out.events)
            /\ out.update_ok <=> (out.update_calls = 1 /\ env.db = "ok")
            /\ \A i \in PositionsOf(out.calls, "log_event") :
                  i > 1 /\ out.calls[i - 1] = "update_server"
            /\ (out.update_calls = 1 /\ env.db = "err") =>
                  /\ out.events = <<>>
                  /\ ~out.panic
                  /\ out.calls[Len(out.calls)] = "update_server"

\* C28 witness: a response parsed, update_server was called and failed, and
\* the invocation returned with no event.
C28_Witness ==
    /\ task.pc = "done"
    /\ task.out.parsed
    /\ task.out.update_calls = 1
    /\ env.db = "err"
    /\ ~task.out.update_ok
    /\ task.out.events = <<>>
    /\ ~task.out.panic

\* the first byte of the stream whose continuation bit is clear, or 0
FirstFinal(bytes) ==
    IF \E i \in 1..Len(bytes) : bytes[i] < 128
    THEN CHOOSE i \in 1..Len(bytes) :
            bytes[i] < 128 /\ \A j \in 1..(i - 1) : bytes[j] >= 128
    ELSE 0

\* the 7-bit groups of the first n bytes, the first group lowest
RECURSIVE GroupSum(_, _)
GroupSum(bytes, n) ==
    IF n = 0 THEN 0
    ELSE GroupSum(bytes, n - 1) + (bytes[n] % 128) * Pow2(7 * (n - 1))

\* C29: read_varint_from_stream consumes at most 5 bytes of any stream; it
\* returns at the first byte whose continuation bit is clear, having
\* consumed the bytes up to it, the value made of their 7-bit groups; and
\* when each of the first 5 bytes has the continuation bit set it returns
\* an error with 5 bytes consumed.
C29_VarintAtMostFive ==
    (task.pc = "done" /\ env.fn = "read_varint") =>
        LET r == task.out
            f == FirstFinal(env.bytes)
        IN  /\ r.pos - 1 <= 5
            /\ r.pos - 1 <= Len(env.bytes)
            /\ (f > 0 /\ f <= 5) =>
                  /\ r.kind = "ok"
                  /\ r.pos = f + 1
                  /\ r.wide.lo = GroupSum(env.bytes, Min(f, 4))
                  /\ r.wide.hi = (IF f = 5 THEN env.bytes[5] % 128 ELSE 0)
            /\ (Len(env.bytes) >= 5 /\ \A i \in 1..5 : env.bytes[i] >= 128) =>
                  /\ r.kind = "toobig"
                  /\ r.pos = 6
            /\ r.kind = "ok" => f > 0 /\ f <= 5
            /\ r.kind = "end" => r.pos = Len(env.bytes) + 1

\* C29 witness: five bytes with the continuation bit and a sixth byte
\* without it were an error, and the sixth byte was left unread.
C29_Witness ==
    /\ task.pc = "done"
    /\ env.fn = "read_varint"
    /\ Len(env.bytes) = 6
    /\ FirstFinal(env.bytes) = 6
    /\ task.out.kind = "toobig"
    /\ task.out.pos = 6

\* the code-unit count a legacy response declares in its bytes 1-2
DeclaredCount(buf) == buf[2] * 256 + buf[3]

\* C30 as claimed: legacy_ping takes 2 * count bytes of payload for every
\* count of 0..65535, so that a response is accepted only when it holds
\* 3 + 2 * count bytes, and a response that declares 32768 code units or
\* more, which the one read of at most 1024 bytes cannot hold, is a
\* MalformedResponse.
C30_ByteLenNoWrap ==
    (task.pc = "done" /\ LegacyAnswered /\ Len(env.peer.buf) >= 3
        /\ env.peer.buf[1] = 255) =>
        /\ task.out.result = "Ok" =>
              Len(env.peer.buf) >= 3 + 2 * DeclaredCount(env.peer.buf)
        /\ DeclaredCount(env.peer.buf) >= 32768 =>
              task.out.result = "MalformedResponse"

\* s is one of the accepted color names
IsColorName(s) == \E n \in ColorNames : n.name = s

\* s is '#' followed by six hexadecimal digits
IsHexColor(s) ==
    /\ Len(s) = 7
    /\ s[1] = 35
    /\ \A i \in 2..7 : HexValue(s[i]) >= 0

\* C31 as claimed: a color string that is neither an accepted name nor '#'
\* followed by six hex digits has the code r.
C31_UnknownColorIsReset ==
    (task.pc = "done" /\ env.fn = "color_code"
        /\ ~IsColorName(env.s) /\ ~IsHexColor(env.s)) => task.out = 114

\* the step is a panic of the scanner task
ScannerDies == scanPc' = "panicked" /\ scanPc # "panicked"

\* what a step does to the sockets of a rescan iteration, from the row the
\* producer fetched to the worker that is spawned; a step in which the
\* scanner task dies is left aside when excused says so
HandOff(excused) ==
    (excused /\ ScannerDies) \/
    /\ (prod.pc = "send" /\ prod' # prod) =>
          /\ chan' = Append(chan, NextEmitted)
          /\ prod'.pos = prod.pos
          /\ IF prod.port < LastPort
             THEN prod'.pc = "send" /\ prod'.port = prod.port + 1
             ELSE prod'.pc = "fetch"
    /\ (prod.pc = "fetch" /\ prod' # prod) =>
          /\ chan' = chan
          /\ prod.rows # <<>> /\ Head(prod.rows) = "ok" =>
                /\ prod'.pc = "send"
                /\ prod'.pos = prod.pos + 1
                /\ prod'.port = FirstPort
          /\ prod'.pc = "send" => prod.rows # <<>> /\ Head(prod.rows) = "ok"
    /\ chan' # chan =>
          \/ prod.pc = "send" /\ chan' = Append(chan, NextEmitted)
          \/ /\ held = NoSocket
             /\ held' = Head(chan)
             /\ chan' = Tail(chan)
    /\ (held # NoSocket /\ held' # held) =>
          /\ held' = NoSocket
          /\ chan' = chan
          /\ workers'[RescanWorker(held)] = workers[RescanWorker(held)] + 1
    /\ (config.mode = "Rescanner" /\ InFlight' > InFlight) =>
          /\ InFlight' = InFlight + 1
          /\ held # NoSocket
          /\ held' = NoSocket
    /\ InFlight' < InFlight => InFlight' = InFlight - 1

\* at the end of an iteration every socket emitted has been handed over
AllHandedOver ==
    scanPc = "rs_sleep" =>
        /\ chan = <<>>
        /\ held = NoSocket
        /\ exit = "running" => prod.pc = "done"

PingSeconds == task.out.proper_took + task.out.legacy_took

\* C33 as claimed: the sleep after the consumer has drained outlasts every
\* worker, the one spawned last included: with each ping attempt bounded by
\* its timeout, an invocation of the task wrapper is over before
\* QuiesceSleep seconds have passed since it began.
C33_SleepOutlastsWorkers ==
    task.pc = "done" => PingSeconds < QuiesceSleep

\* the ways an attempt under its timeout ends
AttemptEnds == {"Ok", "IOError", "MalformedResponse", "TimedOut", "Elapsed"}

\* the invocation is over: no attempt is left pending, each ended by a
\* result, an error, a panic or its timeout within TIMEOUT_SECS, and an
\* attempt whose peer never lets it return ended by the timeout
AttemptsBounded ==
    task.pc = "done" =>
        LET out == task.out
        IN  /\ out.proper \in AttemptEnds
            /\ out.legacy \in AttemptEnds \cup {"NotAttempted", "Panic"}
            /\ out.proper_took <= TIMEOUT_SECS
            /\ out.legacy_took <= TIMEOUT_SECS
            /\ proper_ping(env.modern).result = "Pending" =>
                  out.proper = "Elapsed" /\ out.proper_took = TIMEOUT_SECS
            /\ (out.legacy # "NotAttempted"
                /\ LegacyUntimed.result = "Pending") =>
                  out.legacy = "Elapsed" /\ out.legacy_took = TIMEOUT_SECS
            /\ out.legacy = "Panic" <=> out.panic

\* C34: every invocation of the task wrapper comes to its end whatever the
\* peer does: each of its two ping attempts ends by a result, an error or
\* its timeout of TIMEOUT_SECS, and none is left pending.
C34_WorkerTerminates ==
    []AttemptsBounded /\ [][task.pc = "ready" => task'.pc = "done"]_vars

\* C34 witness: the peer accepted both connections and never sent a byte;
\* both attempts were ended by their timeouts and the invocation returned.
C34_Witness ==
    /\ task.pc = "done"
    /\ env.modern.conn = "ok"
    /\ proper_ping(env.modern).result = "Pending"
    /\ LegacyUntimed.result = "Pending"
    /\ task.out.proper = "Elapsed"
    /\ task.out.legacy = "Elapsed"
    /\ ~task.out.panic

\* the discovery iteration is left: the process exits or the loop turns
DiscoveryIterationLeft ==
    /\ scanPc = "ds_after"
    /\ exit' = "exit0" \/ scanPc' = "ds_loop"

\* C35: in discovery mode every worker spawned for a discovered host:port
\* has run its task wrapper to completion when the process exits or the
\* next iteration begins.
C35_DiscoveryWorkersComplete ==
    [][DiscoveryIterationLeft => DiscoveryInFlight = 0]_vars

\* no explicit target is configured and the country did not resolve
CountryUnresolved ==
    /\ config.mode = "Discovery"
    /\ ~config.custom_target
    /\ config.country
    /\ scanTarget = "none"

\* C36: in discovery mode, when no explicit target is configured and the
\* country code does not resolve to a CIDR file, no engine subprocess is
\* launched in that iteration, for masscan and for rustscan alike.
C36_NoEngineWithoutTarget ==
    [][(scanPc = "ds_engine" /\ CountryUnresolved) => scanPc' # "ds_read"]_vars

\* a step of the producer's loop head
ProducerFetches ==
    /\ prod.pc = "fetch"
    /\ prod' # prod
    /\ prod'.pc # "none"

\* what the loop head does with the next item of the stream: a row that
\* does not decode is skipped and the next one fetched, an error or the end
\* of the stream ends production, and in each case nothing is emitted and
\* the scanner and the supervisor are left as they were
FetchStep ==
    ProducerFetches =>
        /\ chan' = chan
        /\ <<scanPc, mainPc, restarts, exit>>' =
               <<scanPc, mainPc, restarts, exit>>
        /\ IF prod.rows = <<>> THEN prod'.pc = "done"
           ELSE IF Head(prod.rows) = "err" THEN prod'.pc = "done"
           ELSE /\ prod'.pos = prod.pos + 1
                /\ prod'.rows = Tail(prod.rows)
                /\ Head(prod.rows) = "bad" => prod'.pc = "fetch"
                /\ Head(prod.rows) = "ok" =>
                       prod'.pc = "send" /\ prod'.port = FirstPort

\* once production has ended nothing more is emitted in the iteration
ClosedStaysClosed ==
    prod.pc = "done" =>
        /\ prod'.pc \in {"done", "none"}
        /\ Len(chan') <= Len(chan)

\* C37: the rescan producer ends, and with it drops the sender, on every
\* path: a row whose address does not decode is skipped and production goes
\* on with the next row; the first error of the stream ends production
\* with nothing emitted after it and no panic; and the consumer loop, once
\* entered, terminates, so that the iteration reaches its end.
C37_ProducerCloses ==
    /\ [][FetchStep]_vars
    /\ [][ClosedStaysClosed]_vars
    /\ (scanPc = "rs_recv") ~>
           (scanPc = "rs_sleep" /\ prod.pc = "done" /\ chan = <<>>)

\* C37 witness: the first row did not decode and was skipped, the second
\* row's sockets are the only ones emitted, the stream ended at the
\* third item, and the consumer has not yet taken a socket.
C37_Witness ==
    /\ scanPc = "rs_count"
    /\ prod.pc = "done"
    /\ prod.pos = 2
    /\ chan # <<>>
    /\ \A i \in DOMAIN chan : chan[i].ip = 2

=============================================================================
